---- MODULE Spec2Model ----
(***************************************************************************)
(* Munshiji expense tracker (src/app.js): the Data Store (class            *)
(* ExpenseTracker over one localStorage key) and the screen navigation     *)
(* controller (showScreen / navigateBack / delayed transitions).           *)
(*                                                                         *)
(* Instants are whole hours since 2023-01-01T00:00Z; an ISO date string is *)
(* the instant it denotes.  A month-key "YYYY-MM" is the pair              *)
(* <<year, 1-based month>>.                                                *)
(***************************************************************************)
EXTENDS Integers, Sequences, FiniteSets, TLC

VARIABLES
    storage,    \* localStorage[storageKey]: nothing, unparseable text, or JSON text
    now,        \* the clock (new Date(), Date.now())
    tz,         \* the browser's offset from UTC, in hours (local = UTC + tz)
    pc,         \* "boot" before new ExpenseTracker(), "ready" after
    last,       \* the last call or event: op, arguments, return value, storage before
    ui          \* the page: active screens, pending timers, the script's globals

storeVars == <<storage, now, tz, pc, last>>

vars == <<storage, now, tz, pc, last, ui>>

-----------------------------------------------------------------------------
(* Bounds of the model *)

\* longest expense list the store operations build
MaxExpenses == 2
\* longest expense list found in storage at application start
MaxStartExpenses == 3

-----------------------------------------------------------------------------
(* JavaScript values *)

Null == [null |-> TRUE]
Undefined == [undefined |-> TRUE]
Num(n) == [num |-> n]
Str(s) == [str |-> s]
Bool(b) == [bool |-> b]
Obj(o) == [obj |-> o]

\* an amount is a number, or a string parseFloat cannot read
NumAmt(n) == [isNum |-> TRUE, v |-> n]
BadAmt == [isNum |-> FALSE, v |-> 0]
\* isNaN(parseFloat(a))
parseFloatIsNaN(a) == ~a.isNum
\* parseFloat(a) when it is a number
parseFloat(a) == a.v

\* the script's globals as lines 294-316 leave them, before any screen is shown:
\* no screen active, no timer pending
BlankUI ==
    [active |-> {}, timers |-> {}, activeTimeouts |-> <<>>,
     currentEditingYear |-> Null, currentEditingMonthIndex |-> Null,
     currentViewYear |-> Null, currentViewMonthIndex |-> Null,
     currentViewCategory |-> Null, lastSummaryParams |-> Null,
     expenseIdToDelete |-> Null, deletionSourceScreen |-> Null,
     deletionContext |-> Null,
     currentEditingCategory |-> Undefined, currentDeletingCategory |-> Undefined,
     selectedDownloadMonth |-> Undefined, selectedDownloadYear |-> Undefined]

-----------------------------------------------------------------------------
(* Date: the local calendar of the browser *)

Years == 2023..2026

IsLeap(y) == (y % 4 = 0 /\ y % 100 # 0) \/ y % 400 = 0

\* m is a month index 0..11
DaysInMonth(y, m) ==
    IF m = 1 THEN (IF IsLeap(y) THEN 29 ELSE 28)
    ELSE IF m \in {3, 5, 8, 10} THEN 30 ELSE 31

DaysInYear(y) == IF IsLeap(y) THEN 366 ELSE 365

RECURSIVE DaysBeforeYear(_)
DaysBeforeYear(y) ==
    IF y <= 2023 THEN 0 ELSE DaysBeforeYear(y - 1) + DaysInYear(y - 1)

RECURSIVE DaysBeforeMonth(_, _)
DaysBeforeMonth(y, m) ==
    IF m = 0 THEN 0 ELSE DaysBeforeMonth(y, m - 1) + DaysInMonth(y, m - 1)

\* the day number (days since 1 January 2023) each month of each year starts at
MonthStart ==
    [y \in Years |-> [m \in 0..12 |-> DaysBeforeYear(y) + DaysBeforeMonth(y, m)]]

\* new Date(y, m, d, h) read in local time; a month index outside 0..11 or a
\* day past the month's end carries over, as Date does
DateFromLocal(y, m, d, h) ==
    LET yy == y + (m \div 12)
        mm == m % 12
    IN  ((MonthStart[yy][mm] + (d - 1)) * 24 + h) - tz

\* new Date(isoString) for a date-only string "YYYY-MM-DD": UTC midnight
DateFromUTC(y, m, d) == (MonthStart[y][m] + (d - 1)) * 24

YearOfDay(day) ==
    CHOOSE y \in Years : MonthStart[y][0] <= day /\ day < MonthStart[y][12]

MonthOfDay(day) ==
    CHOOSE m \in 0..11 :
        /\ MonthStart[YearOfDay(day)][m] <= day
        /\ day < MonthStart[YearOfDay(day)][m + 1]

\* the calendar: year, month index and day of the month of each day number
Calendar ==
    [day \in MonthStart[2023][0]..(MonthStart[2026][12] - 1) |->
        [year |-> YearOfDay(day),
         month |-> MonthOfDay(day),
         date |-> day - MonthStart[YearOfDay(day)][MonthOfDay(day)] + 1]]

\* the local day number of an instant
LocalDay(t) == (t + tz) \div 24

getFullYear(t) == Calendar[LocalDay(t)].year

getMonth(t) == Calendar[LocalDay(t)].month

getDate(t) == Calendar[LocalDay(t)].date

getHours(t) == (t + tz) % 24

\* d.setMonth(d.getMonth() + delta)
setMonth(t, delta) ==
    DateFromLocal(getFullYear(t), getMonth(t) + delta, getDate(t), getHours(t))

\* ExpenseTracker.getMonthKey: `${year}-${month padded to 2}`
getMonthKey(t) == <<getFullYear(t), getMonth(t) + 1>>

\* the caller-built key `${year}-${String(monthIndex + 1).padStart(2, '0')}`
MonthKeyOf(year, monthIndex) == <<year, monthIndex + 1>>

\* ExpenseTracker.getPreviousMonth
getPreviousMonth(t) == setMonth(t, -1)

-----------------------------------------------------------------------------
(* The root record and its serialisation *)

EmptyMap == [k \in {} |-> 0]

DefaultRecord ==
    [expenses |-> <<>>, categories |-> <<>>, income |-> EmptyMap, limits |-> EmptyMap]

NothingStored == [kind |-> "none", canon |-> TRUE, rec |-> DefaultRecord]
Unparseable == [kind |-> "garbage", canon |-> TRUE, rec |-> DefaultRecord]

\* localStorage.getItem throws (storage access denied)
Unreadable == [kind |-> "unreadable", canon |-> TRUE, rec |-> DefaultRecord]

\* JSON text of rec; canon says the text is exactly what JSON.stringify writes
\* (no extra white space, keys in insertion order)
JsonText(rec, canon) == [kind |-> "json", canon |-> canon, rec |-> rec]

\* JSON.stringify(data)
stringify(data) == JsonText(data, TRUE)

\* JSON.parse(text): the value, whatever the layout of the text
parse(text) == text.rec

\* what a function leaves when an exception escapes it
Threw == [threw |-> TRUE]

\* getStoredData without its try and catch
getStoredDataUncaught(st) ==
    IF st.kind = "json" THEN parse(st) ELSE IF st.kind = "none" THEN DefaultRecord ELSE Threw

\* getStoredData returning the default record whatever is stored
getStoredDataForgets(st) == DefaultRecord

\* ExpenseTracker.getStoredData: null or "" reads as the default record, text
\* that JSON.parse rejects is caught and reads as the default record
getStoredData(st) ==
    IF st.kind = "json" THEN parse(st) ELSE DefaultRecord

\* ExpenseTracker.saveData (localStorage.setItem succeeding)
saveData(data) == stringify(data)

\* localStorage.setItem in saveData's try: the key holds text when it succeeds;
\* when it throws, the catch logs the error and the key keeps what it held
setItem(st, text, succeeds) == IF succeeds THEN text ELSE st

\* ExpenseTracker.loadData
loadData(st) == getStoredData(st)

MapPut(f, k, v) == [x \in (DOMAIN f) \cup {k} |-> IF x = k THEN v ELSE f[x]]

RECURSIVE FilterSeq(_, _)
\* Array.prototype.filter with the kept positions given as a set of indices
FilterSeq(s, keep) ==
    IF s = <<>> THEN <<>>
    ELSE LET n == Len(s)
             front == FilterSeq(SubSeq(s, 1, n - 1), keep)
         IN  IF n \in keep THEN Append(front, s[n]) ELSE front

-----------------------------------------------------------------------------
(* Application start *)

\* the filter of cleanupOldData with > in place of >=
cleanupOldDataStrict(st) ==
    LET data == getStoredData(st)
        twelveMonthsAgo == setMonth(now, -12)
        kept == {i \in DOMAIN data.expenses : data.expenses[i].date > twelveMonthsAgo}
    IN  saveData([data EXCEPT !.expenses = FilterSeq(data.expenses, kept)])

\* ExpenseTracker.cleanupOldData
cleanupOldData(st) ==
    LET data == getStoredData(st)
        twelveMonthsAgo == setMonth(now, -12)
        kept == {i \in DOMAIN data.expenses : data.expenses[i].date >= twelveMonthsAgo}
    IN  saveData([data EXCEPT !.expenses = FilterSeq(data.expenses, kept)])

\* new ExpenseTracker(): init() runs cleanupOldData, then loadData
Construct ==
    /\ pc = "boot"
    /\ storage' = cleanupOldData(storage)
    /\ pc' = "ready"
    /\ last' = [op |-> "constructor", pre |-> storage,
                ret |-> Obj(loadData(cleanupOldData(storage)))]
    /\ UNCHANGED <<now, tz, ui>>

\* ExpenseTracker.getExpenses
getExpenses(st) == getStoredData(st).expenses

\* a read of the store after start
ReadExpenses ==
    /\ pc = "ready"
    /\ last' = [op |-> "getExpenses", pre |-> storage, ret |-> Obj(getExpenses(storage))]
    /\ UNCHANGED <<storage, now, tz, pc, ui>>

\* the browser's offsets the start is checked under
TzSamples == {0 - 5, 0, 5}

\* the instants the application is started at: an ordinary day, and 29 February
StartInstants ==
    {DateFromLocal(2025, 2, 15, 10), DateFromLocal(2024, 1, 29, 9)}

\* dates of the expenses found in storage: around one year before each start
StartDates ==
    { DateFromLocal(2024, 2, 15, 9), DateFromLocal(2024, 2, 15, 10),
      DateFromLocal(2024, 2, 1, 0), DateFromLocal(2024, 1, 10, 12),
      DateFromLocal(2025, 2, 1, 8),
      DateFromLocal(2023, 2, 1, 8), DateFromLocal(2023, 2, 1, 9) }

StartExpense(i, d) ==
    [id |-> i, date |-> d, category |-> "Food", amount |-> NumAmt(i), comment |-> "c"]

StartExpenseLists ==
    UNION { { [i \in 1..n |-> StartExpense(i, ds[i])] : ds \in [1..n -> StartDates] }
            : n \in 0..MaxStartExpenses }

StartRecords ==
    { [expenses |-> es, categories |-> <<"Food">>,
       income |-> [k \in {<<2024, 1>>} |-> 1],
       limits |-> [k \in {<<2024, 1>>} |-> [c \in {"Food"} |-> 1]]]
      : es \in StartExpenseLists }

\* what the storage key can hold when the page is opened
StartContents ==
    {NothingStored, Unparseable}
       \cup { JsonText(r, c) : r \in StartRecords, c \in BOOLEAN }

InitStart ==
    /\ tz \in TzSamples
    /\ now \in StartInstants
    /\ storage \in StartContents
    /\ pc = "boot"
    /\ ui = BlankUI
    /\ last = [op |-> "none"]

NextStart == Construct \/ ReadExpenses

SpecStart == InitStart /\ [][NextStart]_vars

-----------------------------------------------------------------------------
(* Data Store: expenses *)

\* { ...a, ...b }: the fields b names take b's values
Spread(a, b) ==
    [f \in DOMAIN a |-> IF f \in b.fields THEN b.vals[f] ELSE a[f]]

\* findIndex: the first position whose id is id, 0 when there is none
findIndex(es, id) ==
    IF \E i \in DOMAIN es : es[i].id = id
    THEN CHOOSE i \in DOMAIN es : es[i].id = id /\ \A j \in 1..(i - 1) : es[j].id # id
    ELSE 0

\* ExpenseTracker.addExpense: the id is Date.now().toString(), the date defaults
\* to the current instant
addExpense(st, draft) ==
    LET data == getStoredData(st)
        expense == [id |-> now,
                    date |-> IF draft.hasDate THEN draft.date ELSE now,
                    category |-> draft.category,
                    amount |-> draft.amount,
                    comment |-> draft.comment]
    IN  [st |-> saveData([data EXCEPT !.expenses = Append(data.expenses, expense)]),
         ret |-> Obj(expense)]

\* deleteExpense emptying the list
deleteExpenseClears(st, id) ==
    LET data == getStoredData(st)
    IN  [st |-> saveData([data EXCEPT !.expenses = <<>>]), ret |-> Undefined]

\* ExpenseTracker.deleteExpense
deleteExpense(st, id) ==
    LET data == getStoredData(st)
        kept == {i \in DOMAIN data.expenses : data.expenses[i].id # id}
    IN  [st |-> saveData([data EXCEPT !.expenses = FilterSeq(data.expenses, kept)]),
         ret |-> Undefined]

\* updateExpense replacing the record by the patch instead of merging
updateExpenseNoMerge(st, id, updatedExpense) ==
    LET data == getStoredData(st)
        index == findIndex(data.expenses, id)
        blank == [id |-> id, date |-> 0, category |-> "", amount |-> BadAmt, comment |-> ""]
    IN  IF index # 0
        THEN LET merged == Spread(blank, updatedExpense)
             IN  [st |-> saveData([data EXCEPT !.expenses[index] = merged]),
                  ret |-> Obj(merged)]
        ELSE [st |-> st, ret |-> Null]

\* ExpenseTracker.updateExpense
updateExpense(st, id, updatedExpense) ==
    LET data == getStoredData(st)
        index == findIndex(data.expenses, id)
    IN  IF index # 0
        THEN LET merged == Spread(data.expenses[index], updatedExpense)
             IN  [st |-> saveData([data EXCEPT !.expenses[index] = merged]),
                  ret |-> Obj(merged)]
        ELSE [st |-> st, ret |-> Null]

\* isNaN(amt) ? 0 : amt
AmountOrZero(exp) ==
    IF parseFloatIsNaN(exp.amount) THEN 0 ELSE parseFloat(exp.amount)

RECURSIVE reduceCategoryInMonth(_, _, _)
\* the reduce of getTotalExpensesForCategoryInMonth, from the first expense on
reduceCategoryInMonth(es, category, key) ==
    IF es = <<>> THEN 0
    ELSE LET n == Len(es)
             exp == es[n]
             sum == reduceCategoryInMonth(SubSeq(es, 1, n - 1), category, key)
         IN  IF exp.category = "" THEN sum
             ELSE IF getMonthKey(exp.date) = key /\ exp.category = category
                  THEN sum + AmountOrZero(exp)
                  ELSE sum

\* monthKey || this.getMonthKey(): <<>> stands for an omitted month-key
KeyOrCurrent(monthKey) == IF monthKey = <<>> THEN getMonthKey(now) ELSE monthKey

\* getTotalExpensesForCategoryInMonth without the category test
getTotalExpensesForCategoryInMonthAnyCategory(st, category, monthKey) ==
    LET key == KeyOrCurrent(monthKey)
        es == getExpenses(st)
    IN  reduceCategoryInMonth([i \in DOMAIN es |-> [es[i] EXCEPT !.category = category]],
                              category, key)

\* ExpenseTracker.getTotalExpensesForCategoryInMonth
getTotalExpensesForCategoryInMonth(st, category, monthKey) ==
    reduceCategoryInMonth(getExpenses(st), category, KeyOrCurrent(monthKey))

RECURSIVE reduceMonth(_, _)
\* the reduce of getTotalExpensesForMonth
reduceMonth(es, key) ==
    IF es = <<>> THEN 0
    ELSE LET n == Len(es)
             exp == es[n]
             sum == reduceMonth(SubSeq(es, 1, n - 1), key)
         IN  IF getMonthKey(exp.date) = key THEN sum + AmountOrZero(exp) ELSE sum

\* ExpenseTracker.getTotalExpensesForMonth
getTotalExpensesForMonth(st, monthKey) ==
    reduceMonth(getExpenses(st), KeyOrCurrent(monthKey))

\* ExpenseTracker.getExpensesForMonth
getExpensesForMonth(st, monthKey) ==
    LET key == KeyOrCurrent(monthKey)
        es == getExpenses(st)
    IN  FilterSeq(es, {i \in DOMAIN es : getMonthKey(es[i].date) = key})

-----------------------------------------------------------------------------
(* The expense operations as a state machine *)

\* the clock readings of a session: 5 March 2024 and 2 April 2024, local time
ClockSamples == {DateFromLocal(2024, 2, 5, 10), DateFromLocal(2024, 3, 2, 9)}

\* dates a caller gives: the form's UTC midnights of 20 March and 1 April 2024
DraftDates == {DateFromUTC(2024, 2, 20), DateFromUTC(2024, 3, 1)}

CategoryNames == {"Food", "Rent"}

Drafts ==
    { [hasDate |-> TRUE, date |-> d, category |-> c, amount |-> NumAmt(1), comment |-> "c"]
        : d \in DraftDates, c \in CategoryNames }
    \cup
    { [hasDate |-> TRUE, date |-> DateFromUTC(2024, 2, 20), category |-> "Food",
       amount |-> BadAmt, comment |-> "c"],
      [hasDate |-> FALSE, date |-> 0, category |-> "Rent",
       amount |-> NumAmt(2), comment |-> "c"] }

PatchVals(d, c, a, m) == [id |-> 0, date |-> d, category |-> c, amount |-> a, comment |-> m]

\* the patches of updateExpense: one field, two fields, none, and the four
\* fields the edit list writes
Patches ==
    { [fields |-> {"amount"}, vals |-> PatchVals(0, "", NumAmt(2), "")],
      [fields |-> {"date", "category"},
       vals |-> PatchVals(DateFromUTC(2024, 3, 1), "Rent", BadAmt, "")],
      [fields |-> {}, vals |-> PatchVals(0, "", BadAmt, "")],
      [fields |-> {"date", "category", "amount", "comment"},
       vals |-> PatchVals(DateFromUTC(2024, 2, 20), "Food", NumAmt(1), "c")] }

MonthKeys == {<<2024, 3>>, <<2024, 4>>}

\* ids a caller names: every clock reading, stored or not
IdArgs == ClockSamples

\* the record a session starts from: categories, income and limits are there
\* before the first expense is
SeedRecord ==
    [expenses |-> <<>>, categories |-> <<"Food", "Rent">>,
     income |-> [k \in {<<2024, 3>>} |-> 2],
     limits |-> [k \in {<<2024, 3>>} |-> [c \in {"Food"} |-> 1]]]

InitExpense ==
    /\ tz \in {0 - 5, 0}
    /\ now = DateFromLocal(2024, 2, 5, 10)
    /\ storage = saveData(SeedRecord)
    /\ pc = "ready"
    /\ ui = BlankUI
    /\ last = [op |-> "none"]

\* time passes between two calls
Tick ==
    /\ pc = "ready"
    /\ \E t \in ClockSamples : t > now /\ now' = t
    /\ last' = [op |-> "none"]
    /\ UNCHANGED <<storage, tz, pc, ui>>

AddExpense ==
    /\ pc = "ready"
    /\ Len(getExpenses(storage)) < MaxExpenses
    /\ \E draft \in Drafts :
         LET r == addExpense(storage, draft)
         IN  /\ storage' = r.st
             /\ last' = [op |-> "addExpense", draft |-> draft, ret |-> r.ret, pre |-> storage]
    /\ UNCHANGED <<now, tz, pc, ui>>

UpdateExpense ==
    /\ pc = "ready"
    /\ \E id \in IdArgs, patch \in Patches :
         LET r == updateExpense(storage, id, patch)
         IN  /\ storage' = r.st
             /\ last' = [op |-> "updateExpense", id |-> id, patch |-> patch,
                         ret |-> r.ret, pre |-> storage]
    /\ UNCHANGED <<now, tz, pc, ui>>

DeleteExpense ==
    /\ pc = "ready"
    /\ \E id \in IdArgs :
         LET r == deleteExpense(storage, id)
         IN  /\ storage' = r.st
             /\ last' = [op |-> "deleteExpense", id |-> id, ret |-> r.ret, pre |-> storage]
    /\ UNCHANGED <<now, tz, pc, ui>>

GetTotalExpensesForCategoryInMonth ==
    /\ pc = "ready"
    /\ \E c \in CategoryNames, k \in MonthKeys \cup {<<>>} :
         last' = [op |-> "getTotalExpensesForCategoryInMonth", category |-> c, monthKey |-> k,
                  ret |-> Num(getTotalExpensesForCategoryInMonth(storage, c, k)),
                  pre |-> storage]
    /\ UNCHANGED <<storage, now, tz, pc, ui>>

GetTotalExpensesForMonth ==
    /\ pc = "ready"
    /\ \E k \in MonthKeys \cup {<<>>} :
         last' = [op |-> "getTotalExpensesForMonth", monthKey |-> k,
                  ret |-> Num(getTotalExpensesForMonth(storage, k)),
                  pre |-> storage]
    /\ UNCHANGED <<storage, now, tz, pc, ui>>

NextExpense ==
    \/ Tick
    \/ AddExpense
    \/ UpdateExpense
    \/ DeleteExpense
    \/ GetTotalExpensesForCategoryInMonth
    \/ GetTotalExpensesForMonth

SpecExpense == InitExpense /\ [][NextExpense]_vars

-----------------------------------------------------------------------------
(* Data Store: categories *)

\* String.prototype.trim on the names of the model
trim(s) ==
    CASE s = " Food " -> "Food"
      [] s = "rent " -> "rent"
      [] s = "  " -> ""
      [] OTHER -> s

\* String.prototype.toLowerCase on the names of the model
toLowerCase(s) ==
    CASE s \in {"Food", "FOOD", "food"} -> "food"
      [] s \in {"Rent", "RENT", "rent"} -> "rent"
      [] s = " Food " -> " food "
      [] OTHER -> s

\* addCategory comparing the names as they are, case included
addCategoryCaseSensitive(st, categoryName) ==
    LET data == getStoredData(st)
        exists == \E i \in DOMAIN data.categories : data.categories[i] = trim(categoryName)
    IN  IF exists
        THEN [st |-> st, ret |-> Null]
        ELSE [st |-> saveData([data EXCEPT
                        !.categories = Append(data.categories, trim(categoryName))]),
              ret |-> Str(trim(categoryName))]

\* ExpenseTracker.addCategory
addCategory(st, categoryName) ==
    LET data == getStoredData(st)
        categoryLower == toLowerCase(trim(categoryName))
        exists == \E i \in DOMAIN data.categories :
                      toLowerCase(data.categories[i]) = categoryLower
    IN  IF exists
        THEN [st |-> st, ret |-> Null]
        ELSE [st |-> saveData([data EXCEPT
                        !.categories = Append(data.categories, trim(categoryName))]),
              ret |-> Str(trim(categoryName))]

\* findIndex(cat => cat === oldName): the first position, 0 when there is none
findCategory(cats, oldName) ==
    IF \E i \in DOMAIN cats : cats[i] = oldName
    THEN CHOOSE i \in DOMAIN cats : cats[i] = oldName /\ \A j \in 1..(i - 1) : cats[j] # oldName
    ELSE 0

\* updateCategory renaming the category of the stored expenses too
updateCategoryRenamesExpenses(st, oldName, newName) ==
    LET data == getStoredData(st)
        index == findCategory(data.categories, oldName)
        renamed == [i \in DOMAIN data.expenses |->
                       IF data.expenses[i].category = oldName
                       THEN [data.expenses[i] EXCEPT !.category = trim(newName)]
                       ELSE data.expenses[i]]
    IN  IF index # 0
        THEN [st |-> saveData([data EXCEPT !.categories[index] = trim(newName),
                                           !.expenses = renamed]),
              ret |-> Bool(TRUE)]
        ELSE [st |-> st, ret |-> Bool(FALSE)]

\* updateCategory storing the new name as it was given
updateCategoryUntrimmed(st, oldName, newName) ==
    LET data == getStoredData(st)
        index == findCategory(data.categories, oldName)
    IN  IF index # 0
        THEN [st |-> saveData([data EXCEPT !.categories[index] = newName]),
              ret |-> Bool(TRUE)]
        ELSE [st |-> st, ret |-> Bool(FALSE)]

\* ExpenseTracker.updateCategory
updateCategory(st, oldName, newName) ==
    LET data == getStoredData(st)
        index == findCategory(data.categories, oldName)
    IN  IF index # 0
        THEN [st |-> saveData([data EXCEPT !.categories[index] = trim(newName)]),
              ret |-> Bool(TRUE)]
        ELSE [st |-> st, ret |-> Bool(FALSE)]

\* deleteCategory removing the first entry of the name only
deleteCategoryFirst(st, categoryName) ==
    LET data == getStoredData(st)
        kept == DOMAIN data.categories \ {findCategory(data.categories, categoryName)}
    IN  [st |-> saveData([data EXCEPT !.categories = FilterSeq(data.categories, kept)]),
         ret |-> Bool(TRUE)]

\* ExpenseTracker.deleteCategory
deleteCategory(st, categoryName) ==
    LET data == getStoredData(st)
        kept == {i \in DOMAIN data.categories : data.categories[i] # categoryName}
    IN  [st |-> saveData([data EXCEPT !.categories = FilterSeq(data.categories, kept)]),
         ret |-> Bool(TRUE)]

\* ExpenseTracker.getCategories
getCategories(st) == getStoredData(st).categories

-----------------------------------------------------------------------------
(* The category operations as a state machine *)

\* longest category list the operations build
MaxCategories == 3

\* names a caller gives: two spellings of one name, one with blanks around it,
\* and another name
NameInputs == {"Food", "food", " Food ", "Rent"}

\* the record a session starts from: an expense, an income and a limit are
\* there before the first category is
CategorySeedRecord ==
    [expenses |-> <<[id |-> 1, date |-> DateFromUTC(2024, 2, 20), category |-> "Food",
                     amount |-> NumAmt(1), comment |-> "c"]>>,
     categories |-> <<>>,
     income |-> [k \in {<<2024, 3>>} |-> 2],
     limits |-> [k \in {<<2024, 3>>} |-> [c \in {"Food"} |-> 1]]]

InitCategory ==
    /\ tz = 0
    /\ now = DateFromLocal(2024, 2, 5, 10)
    /\ storage = saveData(CategorySeedRecord)
    /\ pc = "ready"
    /\ ui = BlankUI
    /\ last = [op |-> "none"]

AddCategory ==
    /\ pc = "ready"
    /\ Len(getCategories(storage)) < MaxCategories
    /\ \E name \in NameInputs :
         LET r == addCategory(storage, name)
         IN  /\ storage' = r.st
             /\ last' = [op |-> "addCategory", name |-> name, ret |-> r.ret, pre |-> storage]
    /\ UNCHANGED <<now, tz, pc, ui>>

UpdateCategory ==
    /\ pc = "ready"
    /\ \E old \in {trim(n) : n \in NameInputs}, new \in NameInputs :
         LET r == updateCategory(storage, old, new)
         IN  /\ storage' = r.st
             /\ last' = [op |-> "updateCategory", oldName |-> old, newName |-> new,
                         ret |-> r.ret, pre |-> storage]
    /\ UNCHANGED <<now, tz, pc, ui>>

DeleteCategory ==
    /\ pc = "ready"
    /\ \E name \in {trim(n) : n \in NameInputs} :
         LET r == deleteCategory(storage, name)
         IN  /\ storage' = r.st
             /\ last' = [op |-> "deleteCategory", name |-> name, ret |-> r.ret, pre |-> storage]
    /\ UNCHANGED <<now, tz, pc, ui>>

NextCategory == AddCategory \/ UpdateCategory \/ DeleteCategory

SpecCategory == InitCategory /\ [][NextCategory]_vars

-----------------------------------------------------------------------------
(* Data Store: income *)

\* setIncome keeping only the month it sets
setIncomeDropsOthers(st, amount, monthKey) ==
    LET data == getStoredData(st)
        key == KeyOrCurrent(monthKey)
        incomeValue == parseFloat(amount)
    IN  [st |-> saveData([data EXCEPT !.income = MapPut(EmptyMap, key, incomeValue)]),
         ret |-> Num(incomeValue)]

\* ExpenseTracker.setIncome (amount a number: parseFloat returns it)
setIncome(st, amount, monthKey) ==
    LET data == getStoredData(st)
        key == KeyOrCurrent(monthKey)
        incomeValue == parseFloat(amount)
    IN  [st |-> saveData([data EXCEPT !.income = MapPut(data.income, key, incomeValue)]),
         ret |-> Num(incomeValue)]

\* ExpenseTracker.getIncome: data.income[key] || 0
getIncome(st, monthKey) ==
    LET data == getStoredData(st)
        key == KeyOrCurrent(monthKey)
    IN  IF key \in DOMAIN data.income /\ data.income[key] # 0
        THEN data.income[key]
        ELSE 0

\* ExpenseTracker.getPreviousMonthIncome
getPreviousMonthIncome(st) == getIncome(st, getMonthKey(getPreviousMonth(now)))

-----------------------------------------------------------------------------
(* The income operations as a state machine *)

\* largest income a caller sets
MaxIncome == 2

IncomeKeys == {<<2023, 12>>, <<2024, 3>>, <<2024, 4>>}

\* the record a session starts from: an expense, categories and a limit are
\* there before the first income is
IncomeSeedRecord ==
    [expenses |-> <<[id |-> 1, date |-> DateFromUTC(2024, 2, 20), category |-> "Food",
                     amount |-> NumAmt(1), comment |-> "c"]>>,
     categories |-> <<"Food", "Rent">>,
     income |-> EmptyMap,
     limits |-> [k \in {<<2024, 3>>} |-> [c \in {"Food"} |-> 1]]]

InitIncome ==
    /\ tz \in TzSamples
    /\ now = DateFromLocal(2024, 2, 5, 10)
    /\ storage = saveData(IncomeSeedRecord)
    /\ pc = "ready"
    /\ ui = BlankUI
    /\ last = [op |-> "none"]

SetIncome ==
    /\ pc = "ready"
    /\ \E a \in 0..MaxIncome, k \in IncomeKeys \cup {<<>>} :
         LET r == setIncome(storage, NumAmt(a), k)
         IN  /\ storage' = r.st
             /\ last' = [op |-> "setIncome", amount |-> a, monthKey |-> k,
                         ret |-> r.ret, pre |-> storage]
    /\ UNCHANGED <<now, tz, pc, ui>>

GetIncome ==
    /\ pc = "ready"
    /\ \E k \in IncomeKeys \cup {<<>>} :
         last' = [op |-> "getIncome", monthKey |-> k,
                  ret |-> Num(getIncome(storage, k)), pre |-> storage]
    /\ UNCHANGED <<storage, now, tz, pc, ui>>

NextIncome == Tick \/ SetIncome \/ GetIncome

SpecIncome == InitIncome /\ [][NextIncome]_vars

-----------------------------------------------------------------------------
(* saveData(loadData()) on whatever the storage key holds *)

\* how many times in a row the round trip is applied
MaxRoundTrips == 2

InitRoundTrip ==
    /\ tz = 0
    /\ now = DateFromLocal(2025, 2, 15, 10)
    /\ storage \in StartContents
    /\ pc = "ready"
    /\ ui = BlankUI
    /\ last = [op |-> "none", n |-> 0]

SaveLoad ==
    /\ pc = "ready"
    /\ last.n < MaxRoundTrips
    /\ storage' = saveData(loadData(storage))
    /\ last' = [op |-> "saveLoad", n |-> last.n + 1, pre |-> storage]
    /\ UNCHANGED <<now, tz, pc, ui>>

NextRoundTrip == SaveLoad

SpecRoundTrip == InitRoundTrip /\ [][NextRoundTrip]_vars

-----------------------------------------------------------------------------
(* Data Store: limits *)

\* ExpenseTracker.getLimitsForMonth: data.limits[key] || {}
getLimitsForMonth(st, monthKey) ==
    LET data == getStoredData(st)
        key == KeyOrCurrent(monthKey)
    IN  IF key \in DOMAIN data.limits THEN data.limits[key] ELSE EmptyMap

\* setLimitsForMonth adding the given limits to the ones the month has
setLimitsForMonthMerges(st, limitsObj, monthKey) ==
    LET data == getStoredData(st)
        key == KeyOrCurrent(monthKey)
        old == IF key \in DOMAIN data.limits THEN data.limits[key] ELSE EmptyMap
        merged == [c \in DOMAIN old \cup DOMAIN limitsObj |->
                      IF c \in DOMAIN limitsObj THEN limitsObj[c] ELSE old[c]]
    IN  [st |-> saveData([data EXCEPT !.limits = MapPut(data.limits, key, merged)]),
         ret |-> Obj(merged)]

\* ExpenseTracker.setLimitsForMonth: the month's map is replaced as a whole
setLimitsForMonth(st, limitsObj, monthKey) ==
    LET data == getStoredData(st)
        key == KeyOrCurrent(monthKey)
    IN  [st |-> saveData([data EXCEPT !.limits = MapPut(data.limits, key, limitsObj)]),
         ret |-> Obj(limitsObj)]

\* limitsObj[cat] || 0
LimitOf(limitsObj, cat) == IF cat \in DOMAIN limitsObj THEN limitsObj[cat] ELSE 0

-----------------------------------------------------------------------------
(* The eight mutating operations of the store over one record, a few calls   *)
(* in a row                                                                  *)

\* most calls in a row
MaxStoreCalls == 2

\* the record the calls start from: every collection has an entry
StoreSeedRecord ==
    [SeedRecord EXCEPT
        !.expenses = <<[id |-> DateFromLocal(2024, 2, 1, 9), date |-> DateFromUTC(2024, 2, 1),
                        category |-> "Food", amount |-> NumAmt(1), comment |-> "c"]>>]

StoreIds == {DateFromLocal(2024, 2, 1, 9), DateFromLocal(2024, 2, 5, 10)}

StoreDrafts ==
    { [hasDate |-> TRUE, date |-> DateFromUTC(2024, 2, 20), category |-> c,
       amount |-> NumAmt(2), comment |-> "c"] : c \in CategoryNames }

StorePatches ==
    { [fields |-> {"amount"}, vals |-> PatchVals(0, "", NumAmt(2), "")],
      [fields |-> {"date", "category"},
       vals |-> PatchVals(DateFromUTC(2024, 3, 1), "Rent", BadAmt, "")] }

StoreNames == {"Food", " Food ", "Rent", "Fuel"}

StoreKeys == {<<>>, <<2024, 3>>, <<2024, 4>>}

\* limitsObj arguments: no category, one, two
StoreLimits ==
    {EmptyMap, [c \in {"Rent"} |-> 1], [c \in {"Food", "Rent"} |-> 2]}

InitStore ==
    /\ tz = 0
    /\ now = DateFromLocal(2024, 2, 5, 10)
    /\ storage = saveData(StoreSeedRecord)
    /\ pc = "ready"
    /\ ui = BlankUI
    /\ last = [op |-> "none", n |-> 0]

\* a call of op with first argument a and second b gave r
StoreStep(op, a, b, r) ==
    /\ pc = "ready"
    /\ last.n < MaxStoreCalls
    /\ storage' = r.st
    /\ last' = [op |-> op, a |-> a, b |-> b, ret |-> r.ret, pre |-> storage,
                n |-> last.n + 1]
    /\ UNCHANGED <<now, tz, pc, ui>>

StoreAddExpense ==
    \E d \in StoreDrafts : StoreStep("addExpense", d, 0, addExpense(storage, d))

StoreUpdateExpense ==
    \E i \in StoreIds, q \in StorePatches :
        StoreStep("updateExpense", i, q, updateExpense(storage, i, q))

StoreDeleteExpense ==
    \E i \in StoreIds : StoreStep("deleteExpense", i, 0, deleteExpense(storage, i))

StoreAddCategory ==
    \E n \in StoreNames : StoreStep("addCategory", n, 0, addCategory(storage, n))

StoreUpdateCategory ==
    \E o \in StoreNames, n \in StoreNames :
        StoreStep("updateCategory", trim(o), n, updateCategory(storage, trim(o), n))

StoreDeleteCategory ==
    \E n \in StoreNames :
        StoreStep("deleteCategory", trim(n), 0, deleteCategory(storage, trim(n)))

StoreSetIncome ==
    \E v \in 1..MaxIncome, k \in StoreKeys :
        StoreStep("setIncome", v, k, setIncome(storage, NumAmt(v), k))

StoreSetLimitsForMonth ==
    \E l \in StoreLimits, k \in StoreKeys :
        StoreStep("setLimitsForMonth", l, k, setLimitsForMonth(storage, l, k))

NextStore ==
    \/ StoreAddExpense
    \/ StoreUpdateExpense
    \/ StoreDeleteExpense
    \/ StoreAddCategory
    \/ StoreUpdateCategory
    \/ StoreDeleteCategory
    \/ StoreSetIncome
    \/ StoreSetLimitsForMonth

SpecStore == InitStore /\ [][NextStore]_vars

-----------------------------------------------------------------------------
(* Data Store: totals of a year *)

\* year || new Date().getFullYear(): 0 stands for an omitted year
YearOrCurrent(year) == IF year = 0 THEN getFullYear(now) ELSE year

\* parseInt of the part of a month-key before the first '-'
YearOfKey(monthKey) == monthKey[1]

RECURSIVE sumIncomeEntries(_, _, _)
\* the loop of getTotalIncomeForYear over the entries keys of income
sumIncomeEntries(income, keys, targetYear) ==
    IF keys = {} THEN 0
    ELSE LET monthKey == CHOOSE k \in keys : TRUE
             rest == sumIncomeEntries(income, keys \ {monthKey}, targetYear)
         IN  IF YearOfKey(monthKey) = targetYear THEN rest + income[monthKey] ELSE rest

\* ExpenseTracker.getTotalIncomeForYear
getTotalIncomeForYear(st, year) ==
    LET data == getStoredData(st)
    IN  sumIncomeEntries(data.income, DOMAIN data.income, YearOrCurrent(year))

RECURSIVE reduceYear(_, _)
\* the reduce of getTotalExpensesForYear
reduceYear(es, targetYear) ==
    IF es = <<>> THEN 0
    ELSE LET n == Len(es)
             exp == es[n]
             sum == reduceYear(SubSeq(es, 1, n - 1), targetYear)
         IN  IF getFullYear(exp.date) = targetYear THEN sum + AmountOrZero(exp) ELSE sum

\* getTotalExpensesForYear without the test of the year
getTotalExpensesForYearAnyYear(st, year) ==
    reduceYear([i \in DOMAIN getExpenses(st) |->
                   [getExpenses(st)[i] EXCEPT !.date = DateFromLocal(YearOrCurrent(year), 5, 15, 12)]],
               YearOrCurrent(year))

\* ExpenseTracker.getTotalExpensesForYear
getTotalExpensesForYear(st, year) == reduceYear(getExpenses(st), YearOrCurrent(year))

-----------------------------------------------------------------------------
(* The totals of a year as a state machine: expenses and incomes around the  *)
(* turns of 2024 are stored, and the totals are read                         *)

\* longest expense list
MaxYearExpenses == 2

\* the form's dates: the last day of 2023, the first of 2024, the first of
\* 2025, each a UTC midnight
YearDates ==
    {DateFromUTC(2023, 11, 31), DateFromUTC(2024, 0, 1), DateFromUTC(2025, 0, 1)}

YearDrafts ==
    { [hasDate |-> TRUE, date |-> d, category |-> "Food", amount |-> NumAmt(1),
       comment |-> "c"] : d \in YearDates }
    \cup
    { [hasDate |-> TRUE, date |-> DateFromUTC(2024, 0, 1), category |-> "Rent",
       amount |-> BadAmt, comment |-> "c"],
      [hasDate |-> TRUE, date |-> DateFromUTC(2024, 5, 15), category |-> "Rent",
       amount |-> NumAmt(2), comment |-> "c"] }

YearKeys == {<<2023, 12>>, <<2024, 1>>, <<2024, 12>>}

\* incomes a caller sets
YearIncomes == {1, 2}

\* the time zones: one west of Greenwich, where a date written 1 January is a
\* local 31 December, and Greenwich
YearZones == {0 - 5, 0}

\* years asked for: the current one by omission, 2023 and 2024
YearArgs == {0, 2023, 2024}

\* no total has been read since st was stored
NoneRead(st) == [op |-> "none", year |-> 0, ret |-> Num(0), pre |-> st]

InitYear ==
    /\ tz \in YearZones
    /\ now = DateFromLocal(2024, 2, 5, 10)
    /\ storage = saveData([SeedRecord EXCEPT !.income = EmptyMap])
    /\ pc = "ready"
    /\ ui = BlankUI
    /\ last = NoneRead(storage)

YearAddExpense ==
    /\ pc = "ready"
    /\ Len(getExpenses(storage)) < MaxYearExpenses
    /\ \E draft \in YearDrafts : storage' = addExpense(storage, draft).st
    /\ last' = NoneRead(storage')
    /\ UNCHANGED <<now, tz, pc, ui>>

YearSetIncome ==
    /\ pc = "ready"
    /\ \E a \in YearIncomes, k \in YearKeys : storage' = setIncome(storage, NumAmt(a), k).st
    /\ last' = NoneRead(storage')
    /\ UNCHANGED <<now, tz, pc, ui>>

GetTotalExpensesForYear ==
    /\ pc = "ready"
    /\ \E y \in YearArgs :
         last' = [op |-> "getTotalExpensesForYear", year |-> y,
                  ret |-> Num(getTotalExpensesForYear(storage, y)), pre |-> storage]
    /\ UNCHANGED <<storage, now, tz, pc, ui>>

GetTotalIncomeForYear ==
    /\ pc = "ready"
    /\ \E y \in YearArgs :
         last' = [op |-> "getTotalIncomeForYear", year |-> y,
                  ret |-> Num(getTotalIncomeForYear(storage, y)), pre |-> storage]
    /\ UNCHANGED <<storage, now, tz, pc, ui>>

NextYear ==
    YearAddExpense \/ YearSetIncome \/ GetTotalExpensesForYear \/ GetTotalIncomeForYear

SpecYear == InitYear /\ [][NextYear]_vars

-----------------------------------------------------------------------------
(* Navigation controller: screens, timers, showScreen, navigateBack.          *)
(* The operators take the page state u (a value of ui) and the stored text    *)
(* st, and return the page state the function leaves.  index.html is not part *)
(* of the sources: the document is taken to hold one .screen element for      *)
(* every id the script passes to showScreen, and every button to sit on the   *)
(* screen its handler belongs to.                                             *)

\* the .screen elements: the keys of logicalParent, the two root screens
Screens ==
    {"welcome-screen", "main-menu-screen",
     "income-view-screen", "income-edit-screen", "income-confirmation-screen",
     "categories-main-screen", "add-category-screen", "category-confirmation-screen",
     "edit-category-select-screen", "edit-category-form-screen",
     "delete-category-select-screen", "delete-category-confirmation-screen",
     "limits-screen", "add-expense-screen", "expense-added-screen",
     "view-edit-expenses-screen", "view-expenses-month-select-screen",
     "view-expenses-month-summary-screen", "category-expenses-detail-screen",
     "edit-expenses-month-select-screen", "edit-expenses-list-screen",
     "expense-modified-screen", "download-expenses-screen",
     "download-confirmation-screen", "view-savings-screen",
     "monthly-savings-detail-screen", "exit-confirmation-screen",
     "delete-expense-confirmation-screen"}

\* the handles of the pending timers
Handles(u) == {t.h : t \in u.timers}

\* setTimeout(fn, delay): a pending timer under a handle no pending timer has;
\* the delay is not modelled, a pending timer may fire at any later moment
setTimeout(u, fn) ==
    LET used == Handles(u) \cup {u.activeTimeouts[i] : i \in DOMAIN u.activeTimeouts}
        h == CHOOSE n \in 1..(Cardinality(used) + 1) :
                 n \notin used /\ \A m \in 1..(n - 1) : m \in used
    IN  [ui |-> [u EXCEPT !.timers = @ \cup {[h |-> h, fn |-> fn]}], timeout |-> h]

\* const timeout = setTimeout(fn, delay); activeTimeouts.push(timeout)
setTrackedTimeout(u, fn) ==
    LET t == setTimeout(u, fn)
    IN  [t.ui EXCEPT !.activeTimeouts = Append(@, t.timeout)]

\* activeTimeouts.forEach(clearTimeout); activeTimeouts = []
clearActiveTimeouts(u) ==
    LET listed == {u.activeTimeouts[i] : i \in DOMAIN u.activeTimeouts}
    IN  [u EXCEPT !.timers = {t \in @ : t.h \notin listed}, !.activeTimeouts = <<>>]

\* showScreen that leaves the screens shown before as they are
showScreenKeepsOthers(u, screenId) ==
    LET c == clearActiveTimeouts(u)
    IN  [c EXCEPT !.active = IF screenId \in Screens THEN @ \cup {screenId} ELSE @]

\* showScreen: clears the listed timers, hides every screen, shows the target
\* when the document has it (history.pushState only feeds the browser's list)
showScreen(u, screenId) ==
    LET c == clearActiveTimeouts(u)
    IN  [c EXCEPT !.active = IF screenId \in Screens THEN {screenId} ELSE {}]

showExitConfirmation(u) == showScreen(u, "exit-confirmation-screen")

\* the texts the show functions write are not part of the model
showIncomeViewScreen(u) == showScreen(u, "income-view-screen")

showIncomeConfirmation(u) ==
    setTrackedTimeout(showScreen(u, "income-confirmation-screen"), "incomeConfirmation")

showIncomeEditScreen(u) == showScreen(u, "income-edit-screen")

showCategoriesMainScreen(u) == showScreen(u, "categories-main-screen")

showAddCategoryScreen(u) == showScreen(u, "add-category-screen")

\* returns after the alert, without a showScreen, when there is no category
showEditCategorySelectScreen(u, st) ==
    IF Len(getCategories(st)) = 0 THEN u ELSE showScreen(u, "edit-category-select-screen")

showEditCategoryFormScreen(u, categoryName) ==
    showScreen([u EXCEPT !.currentEditingCategory = Str(categoryName)],
               "edit-category-form-screen")

showDeleteCategorySelectScreen(u, st) ==
    IF Len(getCategories(st)) = 0 THEN u ELSE showScreen(u, "delete-category-select-screen")

showDeleteCategoryConfirmationScreen(u, categoryName) ==
    showScreen([u EXCEPT !.currentDeletingCategory = Str(categoryName)],
               "delete-category-confirmation-screen")

showLimitsScreen(u) == showScreen(u, "limits-screen")

showAddExpenseScreen(u) == showScreen(u, "add-expense-screen")

showViewEditExpensesScreen(u) == showScreen(u, "view-edit-expenses-screen")

showViewExpensesMonthSelectScreen(u) == showScreen(u, "view-expenses-month-select-screen")

showMonthSummaryScreen(u, year, monthIndex) ==
    showScreen([u EXCEPT !.lastSummaryParams = [year |-> year, monthIndex |-> monthIndex],
                         !.currentViewYear = Num(year),
                         !.currentViewMonthIndex = Num(monthIndex)],
               "view-expenses-month-summary-screen")

\* showCategoryExpensesDetailScreen forgetting the summary it came from
showCategoryExpensesDetailScreenDropsSummary(u, year, monthIndex, category) ==
    showScreen([u EXCEPT !.currentViewYear = Num(year),
                         !.currentViewMonthIndex = Num(monthIndex),
                         !.currentViewCategory = Str(category),
                         !.lastSummaryParams = Null],
               "category-expenses-detail-screen")

showCategoryExpensesDetailScreen(u, year, monthIndex, category) ==
    showScreen([u EXCEPT !.currentViewYear = Num(year),
                         !.currentViewMonthIndex = Num(monthIndex),
                         !.currentViewCategory = Str(category)],
               "category-expenses-detail-screen")

showEditExpensesMonthSelectScreen(u) == showScreen(u, "edit-expenses-month-select-screen")

\* the arguments are the globals' values: null when no list was shown before
showEditExpensesListScreen(u, year, monthIndex) ==
    showScreen([u EXCEPT !.currentEditingYear = year,
                         !.currentEditingMonthIndex = monthIndex],
               "edit-expenses-list-screen")

showDownloadExpensesScreen(u) ==
    showScreen([u EXCEPT !.selectedDownloadMonth = Null, !.selectedDownloadYear = Null],
               "download-expenses-screen")

showViewSavingsScreen(u) == showScreen(u, "view-savings-screen")

showMonthlySavingsDetailScreen(u, year, monthIndex) ==
    showScreen(u, "monthly-savings-detail-screen")

\* showDeleteExpenseConfirmation not keeping the screen it was called from
showDeleteExpenseConfirmationNoSource(u, id, sourceScreen, context) ==
    showScreen([u EXCEPT !.expenseIdToDelete = Str(id),
                         !.deletionSourceScreen = Null,
                         !.deletionContext = context],
               "delete-expense-confirmation-screen")

showDeleteExpenseConfirmation(u, id, sourceScreen, context) ==
    showScreen([u EXCEPT !.expenseIdToDelete = Str(id),
                         !.deletionSourceScreen = Str(sourceScreen),
                         !.deletionContext = context],
               "delete-expense-confirmation-screen")

\* the shared branch forgetting where the deletion was asked
returnFromDeletionForgets(u, fallback) == fallback

\* the branch shared by navigateBack, the cancel button and handleDeleteExpense:
\* back to the screen the deletion was asked on; fallback is where the callers differ
returnFromDeletion(u, fallback) ==
    IF u.deletionSourceScreen = Str("category-expenses-detail-screen")
         /\ u.deletionContext # Null
    THEN showCategoryExpensesDetailScreen(u, u.deletionContext.year,
             u.deletionContext.monthIndex, u.deletionContext.category)
    ELSE IF u.deletionSourceScreen = Str("edit-expenses-list-screen")
         THEN showEditExpensesListScreen(u, u.currentEditingYear, u.currentEditingMonthIndex)
         ELSE fallback

\* the screen querySelector('.screen.active') finds: the first active one in
\* document order, any of them here; "" when no screen is active
CurrentIds(u) == IF u.active = {} THEN {""} ELSE u.active

\* navigateBack sending every screen to the main menu
navigateBackToMenu(u, st, currentId) ==
    IF currentId \in {"", "main-menu-screen", "welcome-screen"}
    THEN showExitConfirmation(u)
    ELSE showScreen(u, "main-menu-screen")

\* navigateBack returning from the category form as if no category were left
navigateBackStuckOnForm(u, st, currentId) ==
    IF currentId = "edit-category-form-screen"
    THEN u
    ELSE navigateBackToMenu(u, st, currentId)

\* navigateBack treating the exit confirmation as a root screen
navigateBackStaysOnExit(u, st, currentId) ==
    IF currentId = "exit-confirmation-screen"
    THEN showExitConfirmation(u)
    ELSE navigateBackToMenu(u, st, currentId)

\* navigateBack, currentId being the active screen it found
navigateBack(u, st, currentId) ==
    LET menu == showScreen(u, "main-menu-screen")
    IN  CASE currentId \in {"", "main-menu-screen", "welcome-screen"} ->
                 showExitConfirmation(u)
          [] currentId \in {"income-view-screen", "income-confirmation-screen",
                            "categories-main-screen", "limits-screen",
                            "add-expense-screen", "view-edit-expenses-screen",
                            "view-savings-screen", "exit-confirmation-screen"} -> menu
          [] currentId = "income-edit-screen" -> showIncomeViewScreen(u)
          [] currentId \in {"add-category-screen", "category-confirmation-screen",
                            "edit-category-select-screen",
                            "delete-category-select-screen"} -> showCategoriesMainScreen(u)
          [] currentId = "edit-category-form-screen" -> showEditCategorySelectScreen(u, st)
          [] currentId = "delete-category-confirmation-screen" ->
                 showDeleteCategorySelectScreen(u, st)
          [] currentId = "expense-added-screen" -> showAddExpenseScreen(u)
          [] currentId \in {"view-expenses-month-select-screen",
                            "edit-expenses-month-select-screen",
                            "download-expenses-screen",
                            "download-confirmation-screen"} -> showViewEditExpensesScreen(u)
          [] currentId = "view-expenses-month-summary-screen" ->
                 showViewExpensesMonthSelectScreen(u)
          [] currentId = "category-expenses-detail-screen" ->
                 IF u.lastSummaryParams # Null
                 THEN showMonthSummaryScreen(u, u.lastSummaryParams.year,
                                             u.lastSummaryParams.monthIndex)
                 ELSE showViewExpensesMonthSelectScreen(u)
          [] currentId \in {"edit-expenses-list-screen", "expense-modified-screen"} ->
                 showEditExpensesMonthSelectScreen(u)
          [] currentId = "monthly-savings-detail-screen" -> showViewSavingsScreen(u)
          [] currentId = "delete-expense-confirmation-screen" ->
                 returnFromDeletion(u, menu)
          [] OTHER -> menu

\* the callback of a timer, run when it fires
timerCallback(u, fn) ==
    CASE fn = "download" -> showViewEditExpensesScreen(u)
      [] OTHER -> showScreen(u, "main-menu-screen")

-----------------------------------------------------------------------------
(* Event handlers: each returns the stored text and the page state it leaves *)

Outcome(st, u) == [st |-> st, ui |-> u]

\* handleMenuAction: clears the listed timers itself, then shows the screen
handleMenuAction(st, u, action) ==
    LET c == clearActiveTimeouts(u)
    IN  Outcome(st,
            CASE action = "income" -> showIncomeViewScreen(c)
              [] action = "categories" -> showCategoriesMainScreen(c)
              [] action = "limits" -> showLimitsScreen(c)
              [] action = "add-expense" -> showAddExpenseScreen(c)
              [] action = "view-expense" -> showViewEditExpensesScreen(c)
              [] action = "savings" -> showViewSavingsScreen(c)
              [] action = "exit" -> showExitConfirmation(c)
              [] OTHER -> c)

\* handleContinueIncome: confirms the month's income, or copies the previous
\* month's income forward; alerts and stays when both are 0
handleContinueIncome(st, u) ==
    LET currentMonthKey == getMonthKey(now)
        currentIncome == getIncome(st, currentMonthKey)
        previousIncome == getPreviousMonthIncome(st)
    IN  IF currentIncome > 0 THEN Outcome(st, showIncomeConfirmation(u))
        ELSE IF previousIncome = 0 THEN Outcome(st, u)
        ELSE Outcome(setIncome(st, NumAmt(previousIncome), currentMonthKey).st,
                     showIncomeConfirmation(u))

\* handleSetIncome: stores the income and schedules the return to the main
\* menu; it does not call showScreen
\* handleSetIncome taking a negative income
handleSetIncomeTakesNegative(st, u, incomeInput) ==
    IF parseFloatIsNaN(incomeInput)
    THEN Outcome(st, u)
    ELSE Outcome(setIncome(st, incomeInput, <<>>).st, setTrackedTimeout(u, "incomeSet"))

handleSetIncome(st, u, incomeInput) ==
    IF parseFloatIsNaN(incomeInput) \/ parseFloat(incomeInput) < 0
    THEN Outcome(st, u)
    ELSE Outcome(setIncome(st, incomeInput, <<>>).st, setTrackedTimeout(u, "incomeSet"))

handleAddCategory(st, u, categoryInput) ==
    LET categoryName == trim(categoryInput)
        added == addCategory(st, categoryName)
    IN  IF categoryName = "" THEN Outcome(st, u)
        ELSE IF added.ret = Null THEN Outcome(st, u)
        ELSE Outcome(added.st, showScreen(u, "category-confirmation-screen"))

\* handleUpdateCategory without the check for a name another category has
handleUpdateCategoryUnchecked(st, u, nameInput) ==
    LET newName == trim(nameInput)
        editing == u.currentEditingCategory
        updated == updateCategory(st, editing.str, newName)
    IN  IF newName = "" \/ editing = Undefined THEN Outcome(st, u)
        ELSE IF updated.ret = Bool(TRUE)
             THEN Outcome(updated.st, showCategoriesMainScreen(u))
             ELSE Outcome(st, u)

handleUpdateCategory(st, u, nameInput) ==
    LET newName == trim(nameInput)
        categories == getCategories(st)
        editing == u.currentEditingCategory
        taken == \E i \in DOMAIN categories :
                     /\ toLowerCase(categories[i]) = toLowerCase(newName)
                     /\ Str(categories[i]) # editing
        updated == updateCategory(st, editing.str, newName)
    IN  IF newName = "" \/ taken \/ editing = Undefined THEN Outcome(st, u)
        ELSE IF updated.ret = Bool(TRUE)
             THEN Outcome(updated.st, showCategoriesMainScreen(u))
             ELSE Outcome(st, u)

\* the confirm button's listener and handleDeleteCategory
handleDeleteCategory(st, u) ==
    IF u.currentDeletingCategory = Undefined THEN Outcome(st, u)
    ELSE Outcome(deleteCategory(st, u.currentDeletingCategory.str).st,
                 showCategoriesMainScreen(u))

\* handleSetLimits: limitInputs[cat] is the value typed for cat; nothing is
\* stored when a value is not a number, is 0 or exceeds the month's income
\* handleSetLimits storing the values that pass beside a value that does not
handleSetLimitsStoresPassing(st, u, limitInputs) ==
    LET currentIncome == getIncome(st, <<>>)
        categories == getCategories(st)
        names == {categories[i] : i \in DOMAIN categories}
        passing == {c \in names : /\ ~parseFloatIsNaN(limitInputs[c])
                                  /\ parseFloat(limitInputs[c]) # 0
                                  /\ parseFloat(limitInputs[c]) <= currentIncome}
        newLimits == [c \in passing |-> parseFloat(limitInputs[c])]
    IN  Outcome(setLimitsForMonth(st, newLimits, <<>>).st, u)

handleSetLimits(st, u, limitInputs) ==
    LET currentIncome == getIncome(st, <<>>)
        categories == getCategories(st)
        names == {categories[i] : i \in DOMAIN categories}
        hasError == \E c \in names :
                        \/ parseFloatIsNaN(limitInputs[c])
                        \/ parseFloat(limitInputs[c]) = 0
                        \/ parseFloat(limitInputs[c]) > currentIncome
        newLimits == [c \in names |-> parseFloat(limitInputs[c])]
    IN  IF hasError THEN Outcome(st, u)
        ELSE Outcome(setLimitsForMonth(st, newLimits, <<>>).st, u)

\* handleAddExpenseSubmit taking an amount that is 0 or less
handleAddExpenseSubmitTakesAnyAmount(st, u, form) ==
    LET comment == trim(form.comment)
        hasError == \/ ~form.hasDate
                    \/ form.category = ""
                    \/ parseFloatIsNaN(form.amount)
                    \/ comment = ""
    IN  IF hasError THEN Outcome(st, u)
        ELSE Outcome(addExpense(st, [form EXCEPT !.comment = comment]).st,
                     showScreen(u, "expense-added-screen"))

\* handleAddExpenseSubmit: form has the draft's fields; hasDate is FALSE for an
\* empty date input, category "" for no selection
handleAddExpenseSubmit(st, u, form) ==
    LET comment == trim(form.comment)
        hasError == \/ ~form.hasDate
                    \/ form.category = ""
                    \/ parseFloatIsNaN(form.amount)
                    \/ parseFloat(form.amount) <= 0
                    \/ comment = ""
    IN  IF hasError THEN Outcome(st, u)
        ELSE Outcome(addExpense(st, [form EXCEPT !.comment = comment]).st,
                     showScreen(u, "expense-added-screen"))

RECURSIVE SortByDate(_, _)
\* Array.prototype.sort by date (stable), ascending or descending
SortByDate(es, ascending) ==
    IF es = <<>> THEN <<>>
    ELSE LET n == Len(es)
             x == es[n]
             front == SortByDate(SubSeq(es, 1, n - 1), ascending)
             before == {i \in DOMAIN front :
                           IF ascending THEN front[i].date <= x.date
                                        ELSE front[i].date >= x.date}
             k == Cardinality(before)
         IN  SubSeq(front, 1, k) \o <<x>> \o SubSeq(front, k + 1, Len(front))

\* the expenses showEditExpensesListScreen renders, newest first
editListExpenses(st, u) ==
    LET es == getExpenses(st)
        key == MonthKeyOf(u.currentEditingYear.num, u.currentEditingMonthIndex.num)
    IN  IF u.currentEditingYear = Null \/ u.currentEditingMonthIndex = Null THEN <<>>
        ELSE SortByDate(FilterSeq(es, {i \in DOMAIN es : getMonthKey(es[i].date) = key}),
                        FALSE)

\* the row showEditExpensesListScreen renders for an expense: the UTC day of
\* its date, its category when the list has it and the first category when
\* not, its amount, its comment
editRow(st, e) ==
    LET cats == getCategories(st)
        listed == \E i \in DOMAIN cats : cats[i] = e.category
    IN  [id |-> e.id, hasDate |-> TRUE, date |-> (e.date \div 24) * 24,
         category |-> IF listed THEN e.category
                      ELSE IF cats # <<>> THEN cats[1] ELSE "",
         amount |-> IF parseFloatIsNaN(e.amount) THEN NumAmt(0) ELSE e.amount,
         comment |-> e.comment]

RECURSIVE saveRows(_, _)
\* rows.forEach of handleSaveExpenses: every valid row is written as it is met
saveRows(st, rows) ==
    IF rows = <<>> THEN [st |-> st, hasError |-> FALSE]
    ELSE LET n == Len(rows)
             row == rows[n]
             done == saveRows(st, SubSeq(rows, 1, n - 1))
             comm == trim(row.comment)
             invalid == \/ ~row.hasDate \/ row.category = ""
                        \/ parseFloatIsNaN(row.amount) \/ parseFloat(row.amount) <= 0
                        \/ comm = ""
             patch == [fields |-> {"date", "category", "amount", "comment"},
                       vals |-> [id |-> row.id, date |-> row.date,
                                 category |-> row.category, amount |-> row.amount,
                                 comment |-> comm]]
         IN  IF invalid THEN [st |-> done.st, hasError |-> TRUE]
             ELSE [st |-> updateExpense(done.st, row.id, patch).st,
                   hasError |-> done.hasError]

handleSaveExpenses(st, u, rows) ==
    LET saved == saveRows(st, rows)
    IN  Outcome(saved.st,
                IF saved.hasError THEN u ELSE showScreen(u, "expense-modified-screen"))

\* the expenses handleDownloadExpenses exports: from and to are the range
\* inputs ([has, date]); <<>> stands for its early returns
downloadSelection(st, u, from, to) ==
    LET es == getExpenses(st)
        key == MonthKeyOf(u.selectedDownloadYear.num, u.selectedDownloadMonth.num)
    IN  IF from.has /\ to.has
        THEN IF from.date > to.date THEN <<>>
             ELSE FilterSeq(es, {i \in DOMAIN es :
                                    es[i].date >= from.date /\ es[i].date <= to.date})
        ELSE IF u.selectedDownloadMonth \notin {Null, Undefined}
             THEN FilterSeq(es, {i \in DOMAIN es : getMonthKey(es[i].date) = key})
             ELSE <<>>

\* handleDownloadExpenses: the timer it sets is not pushed to activeTimeouts
handleDownloadExpenses(st, u, from, to) ==
    IF downloadSelection(st, u, from, to) = <<>> THEN Outcome(st, u)
    ELSE Outcome(st, setTimeout(showScreen(u, "download-confirmation-screen"),
                                "download").ui)

\* handleDeleteExpense leaving the three deletion globals as they were
handleDeleteExpenseKeepsGlobals(st, u) ==
    IF u.expenseIdToDelete = Null THEN Outcome(st, u)
    ELSE Outcome(deleteExpense(st, u.expenseIdToDelete.str).st, returnFromDeletion(u, u))

handleDeleteExpense(st, u) ==
    IF u.expenseIdToDelete = Null THEN Outcome(st, u)
    ELSE LET shown == returnFromDeletion(u, u)
         IN  Outcome(deleteExpense(st, u.expenseIdToDelete.str).st,
                     [shown EXCEPT !.expenseIdToDelete = Null,
                                   !.deletionSourceScreen = Null,
                                   !.deletionContext = Null])

-----------------------------------------------------------------------------
(* The page as a state machine: one action per listener, one for the browser's *)
(* back button, one for a pending timer firing                                 *)

\* most timers the model lets be pending together
MaxTimers == 2
\* longest expense list the add-expense form builds
MaxUiExpenses == 1

\* data-action of the .menu-btn buttons
MenuActions ==
    {"income", "categories", "limits", "add-expense", "view-expense", "savings", "exit"}

\* data-month of the month buttons pressed, of the twelve rendered
MonthButtons == {2}

\* what is typed into the inputs
IncomeInputs == {BadAmt, NumAmt(1)}
CategoryInputs == {"", "Food"}
RenameInputs == {"Food"}
LimitInputs == {NumAmt(0), NumAmt(1)}
RowEdits == {"keep", "blank"}

NoDate == [has |-> FALSE, date |-> 0]
DownloadRanges ==
    {<<NoDate, NoDate>>,
     <<[has |-> TRUE, date |-> DateFromUTC(2024, 2, 1)],
       [has |-> TRUE, date |-> DateFromUTC(2024, 2, 31)]>>,
     <<[has |-> TRUE, date |-> DateFromUTC(2024, 2, 31)],
       [has |-> TRUE, date |-> DateFromUTC(2024, 2, 1)]>>}

\* the add-expense form as submitted: the date left empty, or every field
\* filled with one of the offered categories selected
ExpenseForms(st) ==
    LET cats == getCategories(st)
        filled(c) == [hasDate |-> TRUE, date |-> DateFromUTC(2024, 2, 10),
                      category |-> c, amount |-> NumAmt(1), comment |-> "c"]
    IN  {[filled("") EXCEPT !.hasDate = FALSE]} \cup {filled(cats[i]) : i \in DOMAIN cats}

\* the body of the DOMContentLoaded listener: the welcome screen is shown and
\* the timer to the main menu is set, its handle kept nowhere
DOMContentLoaded(u) == setTimeout(showScreen(u, "welcome-screen"), "welcome").ui

\* the record found at start: last month's income is set
UiSeedRecord ==
    [DefaultRecord EXCEPT !.income = MapPut(EmptyMap, <<2024, 2>>, 1)]

InitUi ==
    /\ tz = 0
    /\ now = DateFromLocal(2024, 2, 15, 10)
    /\ pc = "ready"
    /\ storage = stringify(UiSeedRecord)
    /\ ui = DOMContentLoaded(BlankUI)
    /\ last = [op |-> "DOMContentLoaded", from |-> {}]

\* an event of kind op was handled and left outcome r: op is "navigateBack",
\* "timer", the handler's name for the handlers the properties below single
\* out, "listener" for the others; from is the screen navigateBack found active
Step(op, r) ==
    /\ pc = "ready"
    /\ storage' = r.st
    /\ ui' = r.ui
    /\ last' = [op |-> op, from |-> IF op = "navigateBack" THEN ui.active ELSE {}]
    /\ UNCHANGED <<now, tz, pc>>

\* a form was submitted with input typed into it: the step keeps the input and
\* what was stored before
FormStep(op, input, r) ==
    /\ pc = "ready"
    /\ storage' = r.st
    /\ ui' = r.ui
    /\ last' = [op |-> op, from |-> {}, input |-> input, pre |-> storage]
    /\ UNCHANGED <<now, tz, pc>>

\* a button can be clicked while its screen is shown
On(screenId) == screenId \in ui.active

\* the listeners that only call a show function: <<button, its screen, the call>>
Listeners ==
    {<<"edit-income-btn", "income-view-screen", "showIncomeEditScreen">>,
     <<"add-category-btn", "categories-main-screen", "showAddCategoryScreen">>,
     <<"edit-category-btn", "categories-main-screen", "showEditCategorySelectScreen">>,
     <<"delete-category-btn", "categories-main-screen", "showDeleteCategorySelectScreen">>,
     <<"categories-back-menu-btn", "categories-main-screen", "main-menu-screen">>,
     <<"cancel-edit-category-btn", "edit-category-form-screen", "showCategoriesMainScreen">>,
     <<"delete-category-back-btn", "delete-category-select-screen", "showCategoriesMainScreen">>,
     <<"cancel-delete-category-btn", "delete-category-confirmation-screen",
       "showDeleteCategorySelectScreen">>,
     <<"back-to-menu-btn", "category-confirmation-screen", "main-menu-screen">>,
     <<"back-limits-menu-btn", "limits-screen", "main-menu-screen">>,
     <<"expense-back-btn", "add-expense-screen", "main-menu-screen">>,
     <<"expense-add-another-btn", "expense-added-screen", "showAddExpenseScreen">>,
     <<"expense-no-more-btn", "expense-added-screen", "main-menu-screen">>,
     <<"view-monthwise-expenses-btn", "view-edit-expenses-screen",
       "showViewExpensesMonthSelectScreen">>,
     <<"edit-expense-btn", "view-edit-expenses-screen", "showEditExpensesMonthSelectScreen">>,
     <<"download-expenses-btn", "view-edit-expenses-screen", "showDownloadExpensesScreen">>,
     <<"back-view-expenses-menu-btn", "view-edit-expenses-screen", "main-menu-screen">>,
     <<"edit-month-select-back-btn", "edit-expenses-month-select-screen",
       "showViewEditExpensesScreen">>,
     <<"edit-expenses-list-back-btn", "edit-expenses-list-screen",
       "showEditExpensesMonthSelectScreen">>,
     <<"edit-more-expenses-btn", "expense-modified-screen",
       "showEditExpensesMonthSelectScreen">>,
     <<"no-more-edit-expenses-btn", "expense-modified-screen", "showViewEditExpensesScreen">>,
     <<"download-back-btn", "download-expenses-screen", "showViewEditExpensesScreen">>,
     <<"savings-back-btn", "view-savings-screen", "main-menu-screen">>,
     <<"monthly-savings-back-btn", "monthly-savings-detail-screen", "showViewSavingsScreen">>,
     <<"exit-no-btn", "exit-confirmation-screen", "main-menu-screen">>,
     <<"month-summary-back-btn", "view-expenses-month-summary-screen",
       "showViewExpensesMonthSelectScreen">>,
     <<"month-select-back-btn", "view-expenses-month-select-screen",
       "showViewEditExpensesScreen">>,
     <<"category-expenses-back-btn", "category-expenses-detail-screen",
       "categoryExpensesBack">>}

\* what a listener of Listeners does
listenerCall(u, st, call) ==
    CASE call = "showIncomeEditScreen" -> showIncomeEditScreen(u)
      [] call = "showAddCategoryScreen" -> showAddCategoryScreen(u)
      [] call = "showEditCategorySelectScreen" -> showEditCategorySelectScreen(u, st)
      [] call = "showDeleteCategorySelectScreen" -> showDeleteCategorySelectScreen(u, st)
      [] call = "showCategoriesMainScreen" -> showCategoriesMainScreen(u)
      [] call = "showAddExpenseScreen" -> showAddExpenseScreen(u)
      [] call = "showViewExpensesMonthSelectScreen" -> showViewExpensesMonthSelectScreen(u)
      [] call = "showEditExpensesMonthSelectScreen" -> showEditExpensesMonthSelectScreen(u)
      [] call = "showDownloadExpensesScreen" -> showDownloadExpensesScreen(u)
      [] call = "showViewEditExpensesScreen" -> showViewEditExpensesScreen(u)
      [] call = "showViewSavingsScreen" -> showViewSavingsScreen(u)
      [] call = "categoryExpensesBack" ->
             IF u.currentViewYear # Null /\ u.currentViewMonthIndex # Null
             THEN showMonthSummaryScreen(u, u.currentViewYear.num, u.currentViewMonthIndex.num)
             ELSE showScreen(u, "view-expenses-month-summary-screen")
      [] OTHER -> showScreen(u, call)

ClickButton ==
    \E b \in Listeners :
        /\ On(b[2])
        /\ Step("listener", Outcome(storage, listenerCall(ui, storage, b[3])))

ClickMenuButton ==
    /\ On("main-menu-screen")
    /\ \E action \in MenuActions :
           Step("listener", handleMenuAction(storage, ui, action))

\* popstate: the browser's back button
Popstate ==
    \E currentId \in CurrentIds(ui) :
        Step("navigateBack", Outcome(storage, navigateBack(ui, storage, currentId)))

\* a pending timer fires: it is pending no more and its callback runs
TimerFires ==
    \E t \in ui.timers :
        Step("timer", Outcome(storage, timerCallback([ui EXCEPT !.timers = @ \ {t}], t.fn)))

ClickContinueIncome ==
    /\ On("income-view-screen")
    /\ Cardinality(ui.timers) < MaxTimers
    /\ Step("handleContinueIncome", handleContinueIncome(storage, ui))

ClickSetIncome ==
    /\ On("income-edit-screen")
    /\ Cardinality(ui.timers) < MaxTimers
    /\ \E v \in IncomeInputs : Step("listener", handleSetIncome(storage, ui, v))

ClickSetCategory ==
    /\ On("add-category-screen")
    /\ \E name \in CategoryInputs :
           Step("listener", handleAddCategory(storage, ui, name))

\* a button of edit-category-list or delete-category-list
ClickCategory ==
    \E i \in DOMAIN getCategories(storage) :
        \/ /\ On("edit-category-select-screen")
           /\ Step("listener",
                   Outcome(storage, showEditCategoryFormScreen(ui, getCategories(storage)[i])))
        \/ /\ On("delete-category-select-screen")
           /\ Step("listener",
                   Outcome(storage,
                           showDeleteCategoryConfirmationScreen(ui, getCategories(storage)[i])))

ClickUpdateCategory ==
    /\ On("edit-category-form-screen")
    /\ \E name \in RenameInputs :
           Step("listener", handleUpdateCategory(storage, ui, name))

ClickConfirmDeleteCategory ==
    /\ On("delete-category-confirmation-screen")
    /\ Step("listener", handleDeleteCategory(storage, ui))

ClickSetLimits ==
    /\ On("limits-screen")
    /\ LET cats == getCategories(storage)
       IN  \E limitInputs \in [{cats[i] : i \in DOMAIN cats} -> LimitInputs] :
               Step("listener", handleSetLimits(storage, ui, limitInputs))

ClickAddExpense ==
    /\ On("add-expense-screen")
    /\ Len(getExpenses(storage)) < MaxUiExpenses
    /\ \E form \in ExpenseForms(storage) :
           Step("listener", handleAddExpenseSubmit(storage, ui, form))

\* a month button of the view, edit, savings or download month lists
ClickMonthOf(months) ==
    \E m \in months :
        LET year == getFullYear(now)
        IN  \/ /\ On("view-expenses-month-select-screen")
               /\ Step("listener",
                       Outcome(storage, showMonthSummaryScreen(ui, year, m)))
            \/ /\ On("edit-expenses-month-select-screen")
               /\ Step("listener",
                       Outcome(storage, showEditExpensesListScreen(ui, Num(year), Num(m))))
            \/ /\ On("view-savings-screen")
               /\ Step("listener",
                       Outcome(storage, showMonthlySavingsDetailScreen(ui, year, m)))
            \/ /\ On("download-expenses-screen")
               /\ Step("listener",
                       Outcome(storage, [ui EXCEPT !.selectedDownloadMonth = Num(m),
                                                   !.selectedDownloadYear = Num(year)]))

ClickMonth == ClickMonthOf(MonthButtons)

\* a row of month-summary-list: one for each category with a total or a limit
ClickSummaryRow ==
    /\ On("view-expenses-month-summary-screen")
    /\ ui.lastSummaryParams # Null
    /\ LET p == ui.lastSummaryParams
           key == MonthKeyOf(p.year, p.monthIndex)
           cats == getCategories(storage)
       IN  \E i \in DOMAIN cats :
               /\ \/ getTotalExpensesForCategoryInMonth(storage, cats[i], key) # 0
                  \/ LimitOf(getLimitsForMonth(storage, key), cats[i]) # 0
               /\ Step("listener",
                       Outcome(storage,
                               showCategoryExpensesDetailScreen(ui, p.year, p.monthIndex,
                                                                cats[i])))

\* a "-" button of category-expenses-list or of edit-expenses-list
ClickDeleteExpense ==
    \/ /\ On("category-expenses-detail-screen")
       /\ ui.currentViewCategory # Null
       /\ LET key == MonthKeyOf(ui.currentViewYear.num, ui.currentViewMonthIndex.num)
              es == getExpensesForMonth(storage, key)
          IN  \E i \in DOMAIN es :
                  /\ es[i].category = ui.currentViewCategory.str
                  /\ Step("listener",
                          Outcome(storage,
                                  showDeleteExpenseConfirmation(ui, es[i].id,
                                      "category-expenses-detail-screen",
                                      [year |-> ui.currentViewYear.num,
                                       monthIndex |-> ui.currentViewMonthIndex.num,
                                       category |-> ui.currentViewCategory.str])))
    \/ /\ On("edit-expenses-list-screen")
       /\ \E i \in DOMAIN editListExpenses(storage, ui) :
              Step("listener",
                   Outcome(storage,
                           showDeleteExpenseConfirmation(ui, editListExpenses(storage, ui)[i].id,
                                                         "edit-expenses-list-screen", Null)))

\* the listener of cancel-delete-expense-btn
cancelDeleteExpense(st, u) ==
    Outcome(st, returnFromDeletion(u, showScreen(u, "main-menu-screen")))

ClickCancelDeleteExpense ==
    /\ On("delete-expense-confirmation-screen")
    /\ Step("cancelDeleteExpense", cancelDeleteExpense(storage, ui))

ClickConfirmDeleteExpense ==
    /\ On("delete-expense-confirmation-screen")
    /\ Step("handleDeleteExpense", handleDeleteExpense(storage, ui))

\* the save button: every rendered row is kept as rendered or has its comment
\* emptied
ClickSaveExpenses ==
    /\ On("edit-expenses-list-screen")
    /\ LET es == editListExpenses(storage, ui)
       IN  \E edit \in [DOMAIN es -> RowEdits] :
               Step("listener",
                    handleSaveExpenses(storage, ui,
                        [i \in DOMAIN es |->
                            IF edit[i] = "blank"
                            THEN [editRow(storage, es[i]) EXCEPT !.comment = ""]
                            ELSE editRow(storage, es[i])]))

ClickDownload ==
    /\ On("download-expenses-screen")
    /\ Cardinality(ui.timers) < MaxTimers
    /\ \E r \in DownloadRanges :
           Step("listener", handleDownloadExpenses(storage, ui, r[1], r[2]))

NextUi ==
    \/ ClickButton
    \/ ClickMenuButton
    \/ Popstate
    \/ TimerFires
    \/ ClickContinueIncome
    \/ ClickSetIncome
    \/ ClickSetCategory
    \/ ClickCategory
    \/ ClickUpdateCategory
    \/ ClickConfirmDeleteCategory
    \/ ClickSetLimits
    \/ ClickAddExpense
    \/ ClickMonth
    \/ ClickSummaryRow
    \/ ClickDeleteExpense
    \/ ClickCancelDeleteExpense
    \/ ClickConfirmDeleteExpense
    \/ ClickSaveExpenses
    \/ ClickDownload

SpecUi == InitUi /\ [][NextUi]_vars

-----------------------------------------------------------------------------
(* A session over the income and limits forms, with everything that can be   *)
(* typed into their inputs                                                   *)

\* what is typed into income-input: nothing a number, a negative number, 0, 2
FormIncomeInputs == {BadAmt, NumAmt(0 - 1), NumAmt(0), NumAmt(2)}

\* what is typed into a limit input
FormLimitInputs == {BadAmt, NumAmt(0 - 1), NumAmt(0), NumAmt(1), NumAmt(3)}

\* what earlier sessions stored: two categories, February's income
FormsSeedRecord ==
    [DefaultRecord EXCEPT !.categories = <<"Food", "Rent">>,
                          !.income = MapPut(EmptyMap, <<2024, 2>>, 1)]

InitForms ==
    /\ tz = 0
    /\ now = DateFromLocal(2024, 2, 15, 10)
    /\ pc = "ready"
    /\ storage = cleanupOldData(stringify(FormsSeedRecord))
    /\ ui = DOMContentLoaded(BlankUI)
    /\ last = [op |-> "DOMContentLoaded", from |-> {}]

SubmitIncome ==
    /\ On("income-edit-screen")
    /\ Cardinality(ui.timers) < MaxTimers
    /\ \E v \in FormIncomeInputs :
           FormStep("handleSetIncome", v, handleSetIncome(storage, ui, v))

\* the add-expense form as submitted: filled in, or with one field left
\* empty, blank, not a number, 0 or negative
FormExpenseForms ==
    LET filled == [hasDate |-> TRUE, date |-> DateFromUTC(2024, 2, 10),
                   category |-> "Food", amount |-> NumAmt(1), comment |-> "c"]
    IN  {filled,
         [filled EXCEPT !.category = "Rent", !.amount = NumAmt(2), !.comment = " Food "],
         [filled EXCEPT !.hasDate = FALSE],
         [filled EXCEPT !.category = ""],
         [filled EXCEPT !.amount = BadAmt],
         [filled EXCEPT !.amount = NumAmt(0)],
         [filled EXCEPT !.amount = NumAmt(0 - 1)],
         [filled EXCEPT !.comment = ""],
         [filled EXCEPT !.comment = "  "]}

\* longest expense list the session builds
MaxFormExpenses == 2

SubmitExpense ==
    /\ On("add-expense-screen")
    /\ Len(getExpenses(storage)) < MaxFormExpenses
    /\ \E form \in FormExpenseForms :
           FormStep("handleAddExpenseSubmit", form,
                    handleAddExpenseSubmit(storage, ui, form))

SubmitLimits ==
    /\ On("limits-screen")
    /\ LET cats == getCategories(storage)
       IN  \E limitInputs \in [{cats[i] : i \in DOMAIN cats} -> FormLimitInputs] :
               FormStep("handleSetLimits", limitInputs,
                        handleSetLimits(storage, ui, limitInputs))

NextForms ==
    \/ ClickButton
    \/ ClickMenuButton
    \/ Popstate
    \/ TimerFires
    \/ ClickContinueIncome
    \/ SubmitIncome
    \/ SubmitLimits
    \/ SubmitExpense

SpecForms == InitForms /\ [][NextForms]_vars

-----------------------------------------------------------------------------
(* The callers of the category operations: direct calls, and the edit form   *)
(* of the page, which calls updateCategory through handleUpdateCategory      *)

\* edit-category-form-screen: a listed category was picked, a name typed and
\* Update pressed
SubmitRename ==
    /\ pc = "ready"
    /\ \E i \in DOMAIN getCategories(storage), name \in NameInputs :
           LET editing == getCategories(storage)[i]
               r == handleUpdateCategory(storage,
                                         showEditCategoryFormScreen(ui, editing), name)
           IN  /\ storage' = r.st
               /\ ui' = r.ui
               /\ last' = [op |-> "handleUpdateCategory", oldName |-> editing,
                           newName |-> name, pre |-> storage]
    /\ UNCHANGED <<now, tz, pc>>

NextRename == AddCategory \/ UpdateCategory \/ DeleteCategory \/ SubmitRename

SpecRename == InitCategory /\ [][NextRename]_vars

-----------------------------------------------------------------------------
(* The store over a storage that fails: reads that throw or find text that   *)
(* does not parse, writes that throw                                         *)

MaxFaultExpenses == 2

\* what the storage key holds when the session starts
FaultContents == {NothingStored, Unparseable, Unreadable, stringify(SeedRecord)}

FaultDrafts ==
    { [hasDate |-> TRUE, date |-> DateFromUTC(2024, 2, 20), category |-> c,
       amount |-> NumAmt(1), comment |-> "c"] : c \in CategoryNames }

\* the store operation a call names, on stored text st
FaultApply(st, call) ==
    CASE call.op = "addExpense" -> addExpense(st, call.arg)
      [] call.op = "addCategory" -> addCategory(st, call.arg)
      [] call.op = "setIncome" -> setIncome(st, NumAmt(call.arg), <<>>)
      [] call.op = "getExpenses" -> [st |-> st, ret |-> Obj(getExpenses(st))]
      [] call.op = "getIncome" -> [st |-> st, ret |-> Num(getIncome(st, <<>>))]

InitFault ==
    /\ tz = 0
    /\ now \in ClockSamples
    /\ storage \in FaultContents
    /\ pc = "ready"
    /\ ui = BlankUI
    /\ last = [op |-> "none"]

\* a call of the store: its write, when it makes one, succeeds or throws
FaultStep(call, succeeds) ==
    LET r == FaultApply(storage, call)
    IN  /\ pc = "ready"
        /\ storage' = setItem(storage, r.st, succeeds)
        /\ last' = [op |-> call.op, arg |-> call.arg, succeeds |-> succeeds,
                    ret |-> r.ret, pre |-> storage]
        /\ UNCHANGED <<now, tz, pc, ui>>

FaultAddExpense ==
    /\ Len(getExpenses(storage)) < MaxFaultExpenses
    /\ \E draft \in FaultDrafts, succeeds \in BOOLEAN :
           FaultStep([op |-> "addExpense", arg |-> draft], succeeds)

FaultAddCategory ==
    \E name \in CategoryNames, succeeds \in BOOLEAN :
        FaultStep([op |-> "addCategory", arg |-> name], succeeds)

FaultSetIncome ==
    \E a \in 1..MaxIncome, succeeds \in BOOLEAN :
        FaultStep([op |-> "setIncome", arg |-> a], succeeds)

FaultGetExpenses == FaultStep([op |-> "getExpenses", arg |-> 0], FALSE)

FaultGetIncome == FaultStep([op |-> "getIncome", arg |-> 0], FALSE)

NextFault ==
    \/ Tick
    \/ FaultAddExpense
    \/ FaultAddCategory
    \/ FaultSetIncome
    \/ FaultGetExpenses
    \/ FaultGetIncome

SpecFault == InitFault /\ [][NextFault]_vars

-----------------------------------------------------------------------------
(* A session over expenses of earlier sessions: the user looks at the        *)
(* months, edits the lists and deletes expenses                              *)

\* the month buttons pressed: February and March
BrowseMonths == {1, 2}

\* an expense of an earlier session, made at instant i
BrowseExpense(i, d, c) ==
    [id |-> i, date |-> d, category |-> c, amount |-> NumAmt(1), comment |-> "c"]

\* what earlier sessions stored: two categories, three expenses
BrowseSeedRecord ==
    [DefaultRecord EXCEPT
        !.categories = <<"Food", "Rent">>,
        !.expenses = <<BrowseExpense(DateFromLocal(2024, 1, 20, 9),
                                     DateFromUTC(2024, 1, 20), "Rent"),
                       BrowseExpense(DateFromLocal(2024, 2, 10, 9),
                                     DateFromUTC(2024, 2, 10), "Food"),
                       BrowseExpense(DateFromLocal(2024, 2, 12, 9),
                                     DateFromUTC(2024, 2, 12), "Food")>>]

InitBrowse ==
    /\ tz = 0
    /\ now = DateFromLocal(2024, 2, 15, 10)
    /\ pc = "ready"
    /\ storage = cleanupOldData(stringify(BrowseSeedRecord))
    /\ ui = DOMContentLoaded(BlankUI)
    /\ last = [op |-> "DOMContentLoaded", from |-> {}]

BrowseMonth == ClickMonthOf(BrowseMonths)

NextBrowse ==
    \/ ClickButton
    \/ ClickMenuButton
    \/ Popstate
    \/ TimerFires
    \/ BrowseMonth
    \/ ClickSummaryRow
    \/ ClickDeleteExpense
    \/ ClickCancelDeleteExpense
    \/ ClickConfirmDeleteExpense
    \/ ClickSaveExpenses

SpecBrowse == InitBrowse /\ [][NextBrowse]_vars

-----------------------------------------------------------------------------
(* A session over the edit list: the rows are changed and saved              *)

\* what is done to a row before Save is pressed: nothing, its comment is
\* emptied, its amount is set to 2
EditRowEdits == {"keep", "blank", "amount"}

\* the row as the save handler reads it after the edit
editedRow(row, edit) ==
    CASE edit = "blank" -> [row EXCEPT !.comment = ""]
      [] edit = "amount" -> [row EXCEPT !.amount = NumAmt(2)]
      [] OTHER -> row

\* the save button of edit-expenses-list-screen
SubmitRows ==
    /\ On("edit-expenses-list-screen")
    /\ LET es == editListExpenses(storage, ui)
       IN  \E edit \in [DOMAIN es -> EditRowEdits] :
               LET rows == [i \in DOMAIN es |-> editedRow(editRow(storage, es[i]), edit[i])]
               IN  FormStep("handleSaveExpenses", rows,
                            handleSaveExpenses(storage, ui, rows))

NextEdit ==
    \/ ClickButton
    \/ ClickMenuButton
    \/ Popstate
    \/ TimerFires
    \/ BrowseMonth
    \/ SubmitRows

SpecEdit == InitBrowse /\ [][NextEdit]_vars

-----------------------------------------------------------------------------
(* A session in which the user waits whenever a confirmation is about to     *)
(* dismiss itself: the income forms and the download, with the event loop    *)
(* running every timer that is due                                           *)

\* what earlier sessions stored: February's income, expenses of February and
\* March 2024
IdleSeedRecord ==
    [BrowseSeedRecord EXCEPT !.income = MapPut(EmptyMap, <<2024, 2>>, 1)]

InitIdle ==
    /\ tz = 0
    /\ now = DateFromLocal(2024, 2, 15, 10)
    /\ pc = "ready"
    /\ storage = cleanupOldData(stringify(IdleSeedRecord))
    /\ ui = DOMContentLoaded(BlankUI)
    /\ last = [op |-> "DOMContentLoaded", from |-> {}]

\* a confirmation is shown and the timer it set is pending
Awaiting(screenId, fn) ==
    /\ ui.active = {screenId}
    /\ \E t \in ui.timers : t.fn = fn

AwaitingIncome ==
    \/ Awaiting("income-confirmation-screen", "incomeConfirmation")
    \/ Awaiting("income-edit-screen", "incomeSet")

AwaitingDownload == Awaiting("download-confirmation-screen", "download")

\* the user acts only while no confirmation is waiting to dismiss itself
UserActs == ~AwaitingIncome /\ ~AwaitingDownload

IdleClickButton == UserActs /\ ClickButton

IdleClickMenuButton == UserActs /\ ClickMenuButton

IdlePopstate == UserActs /\ Popstate

IdleContinueIncome == UserActs /\ ClickContinueIncome

IdleSetIncome == UserActs /\ ClickSetIncome

IdleDownload == UserActs /\ ClickDownload

NextIdle ==
    \/ IdleClickButton
    \/ IdleClickMenuButton
    \/ IdlePopstate
    \/ IdleContinueIncome
    \/ IdleSetIncome
    \/ IdleDownload
    \/ TimerFires

\* setTimeout: the event loop runs a callback that is due
SpecIdle == InitIdle /\ [][NextIdle]_vars /\ WF_vars(TimerFires)

-----------------------------------------------------------------------------
(* A session over three stored expenses in which categories are deleted and  *)
(* the edit list of March is saved                                           *)

\* a button of delete-category-list
ClickDeleteCategoryButton ==
    /\ On("delete-category-select-screen")
    /\ \E i \in DOMAIN getCategories(storage) :
           Step("listener",
                Outcome(storage,
                        showDeleteCategoryConfirmationScreen(ui, getCategories(storage)[i])))

\* the month button of March
ClickMarch == ClickMonthOf({2})

NextUnlisted ==
    \/ ClickButton
    \/ ClickMenuButton
    \/ Popstate
    \/ TimerFires
    \/ ClickMarch
    \/ ClickDeleteCategoryButton
    \/ ClickConfirmDeleteCategory
    \/ SubmitRows

SpecUnlisted == InitBrowse /\ [][NextUnlisted]_vars

-----------------------------------------------------------------------------
(* The add-expense form submitted in browsers of several time zones          *)

InitZones ==
    /\ tz \in TzSamples
    /\ now = DateFromLocal(2024, 2, 15, 10)
    /\ pc = "ready"
    /\ storage = cleanupOldData(stringify(FormsSeedRecord))
    /\ ui = DOMContentLoaded(BlankUI)
    /\ last = [op |-> "DOMContentLoaded", from |-> {}]

\* the values of expense-date that are submitted, as <<year, month, day>>:
\* the first day, a middle day and the last day of March 2024
ZoneDateValues == {<<2024, 3, 1>>, <<2024, 3, 10>>, <<2024, 3, 31>>}

\* new Date(value) for the value "YYYY-MM-DD" of a date input
DateOfValue(value) == DateFromUTC(value[1], value[2] - 1, value[3])

\* the add-expense form submitted with every field filled in: input holds the
\* values of the fields, the handler is given what it reads and converts
SubmitDatedExpense ==
    /\ On("add-expense-screen")
    /\ Len(getExpenses(storage)) < MaxFormExpenses
    /\ \E value \in ZoneDateValues, v \in {1, 2} :
           LET form == [hasDate |-> TRUE, date |-> DateOfValue(value),
                        category |-> "Food", amount |-> NumAmt(v), comment |-> "c"]
           IN  FormStep("handleAddExpenseSubmit",
                        [date |-> value, category |-> "Food", amount |-> v],
                        handleAddExpenseSubmit(storage, ui, form))

NextZones ==
    \/ ClickButton
    \/ ClickMenuButton
    \/ Popstate
    \/ TimerFires
    \/ SubmitDatedExpense

SpecZones == InitZones /\ [][NextZones]_vars

-----------------------------------------------------------------------------
(* The income screen opened in the middle and on the last day of a month     *)

\* the instants the page is opened at: 15 March and 31 March 2024
MonthEndInstants == {DateFromLocal(2024, 2, 15, 10), DateFromLocal(2024, 2, 31, 10)}

\* the income entries found in storage: none, February's, March's, both
MonthEndIncomes ==
    {EmptyMap,
     MapPut(EmptyMap, <<2024, 2>>, 1),
     MapPut(EmptyMap, <<2024, 3>>, 2),
     MapPut(MapPut(EmptyMap, <<2024, 2>>, 1), <<2024, 3>>, 2)}

InitMonthEnd ==
    /\ tz = 0
    /\ now \in MonthEndInstants
    /\ pc = "ready"
    /\ \E income \in MonthEndIncomes :
           storage = cleanupOldData(stringify([DefaultRecord EXCEPT !.income = income]))
    /\ ui = DOMContentLoaded(BlankUI)
    /\ last = [op |-> "DOMContentLoaded", from |-> {}]

\* the Continue button of income-view-screen
ContinueIncome ==
    /\ On("income-view-screen")
    /\ Cardinality(ui.timers) < MaxTimers
    /\ FormStep("handleContinueIncome", <<>>, handleContinueIncome(storage, ui))

NextMonthEnd ==
    \/ ClickButton
    \/ ClickMenuButton
    \/ Popstate
    \/ TimerFires
    \/ ContinueIncome

SpecMonthEnd == InitMonthEnd /\ [][NextMonthEnd]_vars

-----------------------------------------------------------------------------
(* C1 *)

\* now minus 12 calendar months: same local day and time of day, one year back
Cutoff == DateFromLocal(getFullYear(now) - 1, getMonth(now), getDate(now), getHours(now))

\* the i-th smallest element of a set of indices
NthOf(S, i) == CHOOSE x \in S : Cardinality({y \in S : y < x}) = i - 1

\* C1: construction is the first access to the store; after it exactly the
\* expenses dated before the cutoff are gone, and the others (one dated exactly
\* at the cutoff included) are all there in their original order; every later
\* read returns no expense dated before the cutoff.
C1_CleanupAtStart ==
    /\ pc = "boot" => last.op = "none"
    /\ (pc = "ready" /\ last.op = "constructor") =>
          LET before == getStoredData(last.pre).expenses
              after == getStoredData(storage).expenses
              keep == {i \in DOMAIN before : before[i].date >= Cutoff}
          IN  /\ Len(after) = Cardinality(keep)
              /\ \A j \in DOMAIN after : after[j] = before[NthOf(keep, j)]
              /\ \A i \in DOMAIN before :
                    before[i].date < Cutoff =>
                        \A j \in DOMAIN after : after[j].id # before[i].id
    /\ last.op = "getExpenses" =>
          \A j \in DOMAIN last.ret.obj : last.ret.obj[j].date >= Cutoff

\* a start that found an expired expense between two retained ones, one of them
\* dated exactly at the cutoff
C1_Witness ==
    /\ pc = "ready" /\ last.op = "constructor"
    /\ LET before == getStoredData(last.pre).expenses
           after == getStoredData(storage).expenses
       IN  /\ Len(before) = 3 /\ Len(after) = 2
           /\ before[1].date = Cutoff
           /\ before[2].date < Cutoff
           /\ before[3].date > Cutoff
           /\ after = <<before[1], before[3]>>

-----------------------------------------------------------------------------
(* C2 *)

\* the position updateExpense works on: the first expense with that id
FirstWithId(es, id) ==
    CHOOSE i \in DOMAIN es : es[i].id = id /\ \A j \in DOMAIN es : es[j].id = id => i <= j

\* C2: updateExpense(id, patch) on a stored id replaces that expense by its
\* fields overridden with the patch's, leaves every other expense and the
\* other collections as they were and returns the merged expense; on an id
\* that is not stored it returns null and the persisted record is unchanged.
C2_UpdateExpenseMerges ==
    last.op = "updateExpense" =>
        LET before == getStoredData(last.pre)
            after == getStoredData(storage)
        IN  IF \E i \in DOMAIN before.expenses : before.expenses[i].id = last.id
            THEN LET at == FirstWithId(before.expenses, last.id)
                 IN  /\ Len(after.expenses) = Len(before.expenses)
                     /\ \A j \in DOMAIN before.expenses :
                          j # at => after.expenses[j] = before.expenses[j]
                     /\ \A f \in {"id", "date", "category", "amount", "comment"} :
                          after.expenses[at][f] =
                             IF f \in last.patch.fields
                             THEN last.patch.vals[f]
                             ELSE before.expenses[at][f]
                     /\ last.ret = Obj(after.expenses[at])
                     /\ after.categories = before.categories
                     /\ after.income = before.income
                     /\ after.limits = before.limits
            ELSE last.ret = Null /\ storage = last.pre

\* updateExpense(id, {amount: 2}) on the second of two stored expenses
C2_Witness ==
    /\ last.op = "updateExpense"
    /\ last.patch.fields = {"amount"}
    /\ LET before == getExpenses(last.pre)
           after == getExpenses(storage)
       IN  /\ Len(before) = 2
           /\ before[1].id # last.id
           /\ before[2].id = last.id
           /\ before[2].amount = BadAmt
           /\ after[2].amount = NumAmt(2)
           /\ after[2].category = before[2].category
           /\ after[2].date = before[2].date

-----------------------------------------------------------------------------
(* C5 *)

RECURSIVE SumAmounts(_, _)
\* the sum of the amounts at the positions S of es, an unparseable one as 0
SumAmounts(es, S) ==
    IF S = {} THEN 0
    ELSE LET i == CHOOSE x \in S : TRUE
         IN  (IF es[i].amount.isNum THEN es[i].amount.v ELSE 0)
                + SumAmounts(es, S \ {i})

\* C5: the category total of a month is the sum of the amounts of exactly the
\* stored expenses of that category and month-key, the month total is the sum
\* of the amounts of what getExpensesForMonth returns, an unparseable amount
\* counting as 0; both are defined (return a number) in every reachable state.
C5_TotalsAreSums ==
    LET es == getExpenses(storage)
    IN  /\ \A c \in CategoryNames, k \in MonthKeys :
              getTotalExpensesForCategoryInMonth(storage, c, k) =
                 SumAmounts(es, {i \in DOMAIN es :
                                   es[i].category = c /\ getMonthKey(es[i].date) = k})
        /\ \A k \in MonthKeys :
              LET inMonth == getExpensesForMonth(storage, k)
              IN  getTotalExpensesForMonth(storage, k) =
                     SumAmounts(inMonth, DOMAIN inMonth)
        /\ last.op = "getTotalExpensesForCategoryInMonth" =>
              /\ last.ret \in {Num(n) : n \in 0..(2 * Len(es))}
              /\ last.ret.num =
                    SumAmounts(es, {i \in DOMAIN es :
                                      /\ es[i].category = last.category
                                      /\ getMonthKey(es[i].date) = KeyOrCurrent(last.monthKey)})
        /\ last.op = "getTotalExpensesForMonth" =>
              last.ret.num =
                 SumAmounts(es, {i \in DOMAIN es :
                                   getMonthKey(es[i].date) = KeyOrCurrent(last.monthKey)})

\* a category total over a parseable and an unparseable amount of the month
C5_Witness ==
    /\ last.op = "getTotalExpensesForCategoryInMonth"
    /\ last.category = "Food" /\ last.monthKey = <<2024, 3>>
    /\ LET es == getExpenses(storage)
       IN  /\ Len(es) = 2
           /\ \A i \in DOMAIN es :
                es[i].category = "Food" /\ getMonthKey(es[i].date) = <<2024, 3>>
           /\ es[1].amount = NumAmt(1)
           /\ es[2].amount = BadAmt
    /\ last.ret = Num(1)

-----------------------------------------------------------------------------
(* C3 *)

\* C3: addCategory(name) returns null and leaves the persisted record as it
\* was when a stored category equals the trimmed name up to letter case;
\* otherwise it appends the trimmed name at the end of the category list,
\* changes nothing else and returns the trimmed name.
C3_AddCategoryDedup ==
    last.op = "addCategory" =>
        LET before == getStoredData(last.pre)
            after == getStoredData(storage)
            name == trim(last.name)
        IN  IF \E i \in DOMAIN before.categories :
                    toLowerCase(before.categories[i]) = toLowerCase(name)
            THEN last.ret = Null /\ storage = last.pre
            ELSE /\ last.ret = Str(name)
                 /\ Len(after.categories) = Len(before.categories) + 1
                 /\ after.categories[Len(after.categories)] = name
                 /\ \A i \in DOMAIN before.categories :
                      after.categories[i] = before.categories[i]
                 /\ after.expenses = before.expenses
                 /\ after.income = before.income
                 /\ after.limits = before.limits

\* addCategory("food") refused because "Food" is stored
C3_Witness ==
    /\ last.op = "addCategory"
    /\ last.name = "food"
    /\ getCategories(last.pre) = <<"Rent", "Food">>
    /\ last.ret = Null
    /\ getCategories(storage) = <<"Rent", "Food">>

-----------------------------------------------------------------------------
(* C4 *)

\* C4: after setIncome(a, k) the income of k is a, whatever it was before, and
\* the income of every other month is what it was; getIncome returns the
\* stored income of its month, and 0 for a month no setIncome has named.
C4_IncomePerMonth ==
    /\ last.op = "setIncome" =>
          LET key == KeyOrCurrent(last.monthKey)
          IN  /\ getIncome(storage, key) = last.amount
              /\ last.ret = Num(last.amount)
              /\ \A k \in (IncomeKeys \cup {getMonthKey(now)}) \ {key} :
                    getIncome(storage, k) = getIncome(last.pre, k)
              /\ getStoredData(storage).expenses = getStoredData(last.pre).expenses
              /\ getStoredData(storage).categories = getStoredData(last.pre).categories
              /\ getStoredData(storage).limits = getStoredData(last.pre).limits
    /\ last.op = "getIncome" =>
          LET key == KeyOrCurrent(last.monthKey)
              income == getStoredData(storage).income
          IN  /\ storage = last.pre
              /\ last.ret = Num(IF key \in DOMAIN income THEN income[key] ELSE 0)
    /\ \A k \in IncomeKeys :
          k \notin DOMAIN getStoredData(storage).income => getIncome(storage, k) = 0

\* setIncome(2, "2024-03") over an income of 1, with another month set and a
\* third never set
C4_Witness ==
    /\ last.op = "setIncome"
    /\ last.monthKey = <<2024, 3>> /\ last.amount = 2
    /\ getIncome(last.pre, <<2024, 3>>) = 1
    /\ getIncome(last.pre, <<2024, 4>>) = 1
    /\ getIncome(storage, <<2024, 3>>) = 2
    /\ getIncome(storage, <<2024, 4>>) = 1
    /\ <<2023, 12>> \notin DOMAIN getStoredData(storage).income
    /\ getIncome(storage, <<2023, 12>>) = 0

-----------------------------------------------------------------------------
(* C6 *)

-----------------------------------------------------------------------------
(* C7 *)

\* the screens whose back target depends on stored parameters
ContextSensitive ==
    {"category-expenses-detail-screen", "delete-expense-confirmation-screen"}

\* the parent logicalParent names for each screen; the two root screens, which
\* the map does not list, lead to the exit confirmation
StaticParent(a) ==
    CASE a \in {"welcome-screen", "main-menu-screen"} -> "exit-confirmation-screen"
      [] a \in {"income-view-screen", "income-confirmation-screen",
                "categories-main-screen", "limits-screen", "add-expense-screen",
                "view-edit-expenses-screen", "view-savings-screen",
                "exit-confirmation-screen"} -> "main-menu-screen"
      [] a = "income-edit-screen" -> "income-view-screen"
      [] a \in {"add-category-screen", "category-confirmation-screen",
                "edit-category-select-screen", "delete-category-select-screen"} ->
             "categories-main-screen"
      [] a = "edit-category-form-screen" -> "edit-category-select-screen"
      [] a = "delete-category-confirmation-screen" -> "delete-category-select-screen"
      [] a = "expense-added-screen" -> "add-expense-screen"
      [] a \in {"view-expenses-month-select-screen", "edit-expenses-month-select-screen",
                "download-expenses-screen", "download-confirmation-screen"} ->
             "view-edit-expenses-screen"
      [] a = "view-expenses-month-summary-screen" -> "view-expenses-month-select-screen"
      [] a \in {"edit-expenses-list-screen", "expense-modified-screen"} ->
             "edit-expenses-month-select-screen"
      [] a = "monthly-savings-detail-screen" -> "view-savings-screen"

\* C7: after navigateBack() from a screen A that is not context-sensitive, the
\* active screen is the parent the static map gives A, along whatever path A
\* was reached and whatever the stored data and the globals hold
C7_BackGoesToStaticParent ==
    (last.op = "navigateBack" /\ last.from \cap ContextSensitive = {}) =>
        \A a \in last.from : ui.active = {StaticParent(a)}

\* navigateBack ran on expense-modified-screen, which is only ever entered from
\* edit-expenses-list-screen, and showed the month selection
C7_Witness ==
    /\ last.op = "navigateBack"
    /\ last.from = {"expense-modified-screen"}
    /\ ui.active = {"edit-expenses-month-select-screen"}

-----------------------------------------------------------------------------
(* C8 *)

\* C8: in every state from the first showScreen('welcome-screen') on, exactly
\* one screen is active, whether the last showScreen came from a listener, from
\* navigateBack or from a timer
C8_ExactlyOneActive == Cardinality(ui.active) = 1

\* a timer's callback has just shown a screen while another timer is pending
C8_Witness ==
    /\ last.op = "timer"
    /\ ui.timers # {}
    /\ Cardinality(ui.active) = 1

-----------------------------------------------------------------------------
(* C9 *)

\* C9: a step of a listener or of navigateBack that changes the active screen
\* leaves none of the timers pending that were pending before it
C9_NavigationCancelsTimers ==
    [][(last'.op # "timer" /\ ui'.active # ui.active) =>
           \A t \in ui.timers : t \notin ui'.timers]_vars

-----------------------------------------------------------------------------
(* C10 *)

\* C10: at most one timer is pending in every reachable state
C10_AtMostOnePending == Cardinality(ui.timers) <= 1

(* C11 *)

\* the step cancels a pending deletion: the cancel button, or navigateBack
\* finding delete-expense-confirmation-screen active
CancelsDeletion ==
    \/ last'.op = "cancelDeleteExpense"
    \/ last'.op = "navigateBack" /\ last'.from = {"delete-expense-confirmation-screen"}

\* C11: cancelling on delete-expense-confirmation-screen, by the cancel
\* button or by navigateBack, leaves the stored record as it was and shows the
\* screen the deletion was asked on with the stored context: the category
\* detail for the stored year, month and category, or the edit list for the
\* stored editing year and month
C11_CancelRestoresSource ==
    [][CancelsDeletion =>
          /\ storage' = storage
          /\ ui.deletionSourceScreen = Str("category-expenses-detail-screen") =>
                 /\ ui'.active = {"category-expenses-detail-screen"}
                 /\ ui'.currentViewYear = Num(ui.deletionContext.year)
                 /\ ui'.currentViewMonthIndex = Num(ui.deletionContext.monthIndex)
                 /\ ui'.currentViewCategory = Str(ui.deletionContext.category)
          /\ ui.deletionSourceScreen = Str("edit-expenses-list-screen") =>
                 /\ ui'.active = {"edit-expenses-list-screen"}
                 /\ ui'.currentEditingYear = ui.currentEditingYear
                 /\ ui'.currentEditingMonthIndex = ui.currentEditingMonthIndex
                 /\ ui'.currentEditingYear # Null
          /\ ui.deletionSourceScreen \in {Str("category-expenses-detail-screen"),
                                          Str("edit-expenses-list-screen")}]_vars

\* a deletion asked on February's Rent detail was cancelled by the button
C11_Witness ==
    /\ last.op = "cancelDeleteExpense"
    /\ ui.active = {"category-expenses-detail-screen"}
    /\ ui.currentViewMonthIndex = Num(1)
    /\ ui.currentViewCategory = Str("Rent")
    /\ Len(getExpenses(storage)) = 3

(* C12 *)

\* C12: confirming on delete-expense-confirmation-screen removes the expense
\* whose id was stored when the deletion was asked and no other, shows the
\* list screen the deletion was asked on, whose list, read from the store, no
\* longer has the expense, and sets the stored id, source screen and context
\* to null
C12_ConfirmDeletes ==
    [][last'.op = "handleDeleteExpense" =>
          LET before == getExpenses(storage)
              id == ui.expenseIdToDelete.str
          IN  /\ ui.expenseIdToDelete # Null
              /\ \E i \in DOMAIN before : before[i].id = id
              /\ getExpenses(storage') =
                     FilterSeq(before, {i \in DOMAIN before : before[i].id # id})
              /\ ui.deletionSourceScreen \in {Str("category-expenses-detail-screen"),
                                              Str("edit-expenses-list-screen")}
              /\ ui'.active = {ui.deletionSourceScreen.str}
              /\ \A i \in DOMAIN editListExpenses(storage', ui') :
                     editListExpenses(storage', ui')[i].id # id
              /\ ui'.expenseIdToDelete = Null
              /\ ui'.deletionSourceScreen = Null
              /\ ui'.deletionContext = Null]_vars

\* one of March's two Food expenses was deleted from the category detail
C12_Witness ==
    /\ last.op = "handleDeleteExpense"
    /\ ui.active = {"category-expenses-detail-screen"}
    /\ ui.currentViewCategory = Str("Food")
    /\ Len(getExpenses(storage)) = 2
    /\ \E i \in DOMAIN getExpenses(storage) : getExpenses(storage)[i].category = "Food"

(* C13 *)

\* C13: reading the store never throws: when reading the storage key or
\* parsing its text fails, getStoredData and loadData return the empty default
\* record, and the store operation that made the read completes with the
\* result it has on the empty record, no exception reaching its caller
C13_FailedReadGivesDefault ==
    /\ storage.kind \in {"garbage", "unreadable"} =>
           /\ getStoredData(storage) = DefaultRecord
           /\ loadData(storage) = DefaultRecord
    /\ (last.op \notin {"none"} /\ last.pre.kind \in {"garbage", "unreadable"}) =>
           LET onEmpty == FaultApply(stringify(DefaultRecord),
                                     [op |-> last.op, arg |-> last.arg])
           IN  /\ last.ret # Threw
               /\ last.ret = onEmpty.ret
               /\ last.op \in {"getExpenses", "getIncome"} => storage = last.pre
               /\ (last.op \notin {"getExpenses", "getIncome"} /\ last.succeeds) =>
                      storage = onEmpty.st
               /\ last.op = "getExpenses" => last.ret = Obj(<<>>)
               /\ last.op = "getIncome" => last.ret = Num(0)
               /\ last.op = "addExpense" => last.ret.obj.category = last.arg.category

\* an expense was added over text that did not parse, and is the only one stored
C13_Witness ==
    /\ last.op = "addExpense"
    /\ last.pre.kind = "garbage"
    /\ last.succeeds
    /\ Len(getExpenses(storage)) = 1

(* C14 *)

\* C14: when a storage write fails during a mutating operation, the mutation
\* stays visible to every later read of the session: the expense addExpense
\* returned is in what getExpenses returns
C14_FailedWriteStaysVisible ==
    last.op = "addExpense" =>
        \E i \in DOMAIN getExpenses(storage) : Obj(getExpenses(storage)[i]) = last.ret

(* C15 *)

\* C15: after any sequence of addExpense, deleteExpense and updateExpense
\* calls whose patches do not name id, no two stored expenses have the same
\* id, whatever non-decreasing readings the clock gives
C15_IdsDistinct ==
    LET es == getExpenses(storage)
    IN  \A i, j \in DOMAIN es : i # j => es[i].id # es[j].id

(* C16 *)

\* C16: in every state the page's handlers reach (adding expenses through the
\* form, editing expenses, adding, renaming and deleting categories) the
\* category of every stored expense is a name of the category list
C16_ExpenseCategoriesListed ==
    LET es == getExpenses(storage)
        cats == getCategories(storage)
    IN  \A i \in DOMAIN es : \E j \in DOMAIN cats : cats[j] = es[i].category

(* C17 *)

\* no two names of the list are equal when case is ignored
NamesDistinct(st) ==
    LET cats == getCategories(st)
    IN  \A i, j \in DOMAIN cats : i # j => toLowerCase(cats[i]) # toLowerCase(cats[j])

\* C17, for the calls that check the name: addCategory, deleteCategory and
\* the renames made through handleUpdateCategory keep the names of the
\* category list distinct when case is ignored (updateCategory called
\* directly makes no such check)
C17_CheckedCallsKeepNamesDistinct ==
    [][(last'.op \in {"addCategory", "deleteCategory", "handleUpdateCategory"}
          /\ NamesDistinct(storage)) => NamesDistinct(storage')]_vars

\* Food was renamed to food through the form while Rent is listed, the names
\* being distinct before and after
C17_Witness ==
    /\ last.op = "handleUpdateCategory"
    /\ last.oldName = "Food"
    /\ getCategories(last.pre) = <<"Food", "Rent">>
    /\ getCategories(storage) = <<"food", "Rent">>

\* C17: in every state a sequence of addCategory, updateCategory and
\* deleteCategory calls reaches, no two names of the category list are equal
\* when case is ignored
C17_NoNamesEqualIgnoringCase ==
    LET cats == getCategories(storage)
    IN  \A i, j \in DOMAIN cats : i # j => toLowerCase(cats[i]) # toLowerCase(cats[j])

(* C18 *)

\* C18: every limit handleSetLimits stores is strictly positive: each value
\* of limits[monthKey] is greater than 0
C18_LimitsPositive ==
    LET limits == getStoredData(storage).limits
    IN  \A k \in DOMAIN limits : \A c \in DOMAIN limits[k] : limits[k][c] > 0

(* C19 *)

\* the limit typed for c is one handleSetLimits rejects: not a number, 0, or
\* above the month's income
LimitRejected(st, limitInputs, c) ==
    \/ parseFloatIsNaN(limitInputs[c])
    \/ parseFloat(limitInputs[c]) = 0
    \/ parseFloat(limitInputs[c]) > getIncome(st, getMonthKey(now))

\* C19: handleSetLimits stores the limits only when the limit typed for every
\* category passes; when one is rejected (0, not a number, above the month's
\* income) what is stored stays as it was; so every limit it saves is at most
\* the month's income at the time of saving
C19_LimitsStoredOnlyWhenAllPass ==
    last.op = "handleSetLimits" =>
        LET cats == getCategories(last.pre)
            names == {cats[i] : i \in DOMAIN cats}
            before == getStoredData(last.pre)
            saved == getLimitsForMonth(storage, getMonthKey(now))
        IN  IF \E c \in names : LimitRejected(last.pre, last.input, c)
            THEN storage = last.pre
            ELSE /\ saved = [c \in names |-> parseFloat(last.input[c])]
                 /\ \A c \in names : saved[c] <= getIncome(last.pre, getMonthKey(now))
                 /\ getStoredData(storage) =
                        [before EXCEPT !.limits = MapPut(@, getMonthKey(now), saved)]

\* limits were stored for both categories, and a later entry with one limit
\* above the income left them stored
C19_Witness ==
    /\ last.op = "handleSetLimits"
    /\ last.input = [c \in {"Food", "Rent"} |-> IF c = "Food" THEN NumAmt(1) ELSE NumAmt(3)]
    /\ getIncome(storage, getMonthKey(now)) = 2
    /\ getLimitsForMonth(storage, getMonthKey(now)) = [c \in {"Food", "Rent"} |-> 1]

(* C20 *)

\* C20: in every state the income screens reach (handleSetIncome,
\* handleContinueIncome) every value of the income map is a number that is 0
\* or more; an entry that is negative or not a number is rejected and leaves
\* what is stored as it was
C20_IncomeNonNegative ==
    /\ LET income == getStoredData(storage).income
       IN  \A k \in DOMAIN income : income[k] \in Nat
    /\ (last.op = "handleSetIncome"
          /\ (parseFloatIsNaN(last.input) \/ parseFloat(last.input) < 0)) =>
           storage = last.pre
    /\ (last.op = "handleSetIncome"
          /\ ~parseFloatIsNaN(last.input) /\ parseFloat(last.input) >= 0) =>
           getIncome(storage, getMonthKey(now)) = parseFloat(last.input)

\* February's income was taken over for March, then a negative entry for
\* March was rejected
C20_Witness ==
    /\ last.op = "handleSetIncome"
    /\ last.input = NumAmt(0 - 1)
    /\ getStoredData(storage).income = MapPut(MapPut(EmptyMap, <<2024, 2>>, 1), <<2024, 3>>, 1)

(* C21 *)

\* C21: handleAddExpenseSubmit stores an expense and shows
\* expense-added-screen only when date, category and comment are not blank
\* and the amount is a number greater than 0; on a validation error what is
\* stored and the active screen stay as they were; so every expense stored
\* through the form has an amount greater than 0
C21_FormStoresOnlyValidExpenses ==
    /\ LET es == getExpenses(storage)
       IN  \A i \in DOMAIN es :
               ~parseFloatIsNaN(es[i].amount) /\ parseFloat(es[i].amount) > 0
    /\ last.op = "handleAddExpenseSubmit" =>
           LET f == last.input
               before == getStoredData(last.pre)
               valid == /\ f.hasDate
                        /\ f.category # ""
                        /\ ~parseFloatIsNaN(f.amount)
                        /\ parseFloat(f.amount) > 0
                        /\ trim(f.comment) # ""
           IN  IF valid
               THEN /\ ui.active = {"expense-added-screen"}
                    /\ getStoredData(storage) =
                           [before EXCEPT !.expenses =
                               Append(@, [id |-> now, date |-> f.date,
                                          category |-> f.category, amount |-> f.amount,
                                          comment |-> trim(f.comment)])]
               ELSE /\ ui.active = {"add-expense-screen"}
                    /\ storage = last.pre

\* an expense is stored, and a later submission with amount 0 was refused
C21_Witness ==
    /\ last.op = "handleAddExpenseSubmit"
    /\ last.input.amount = NumAmt(0)
    /\ Len(getExpenses(storage)) = 1
    /\ ui.active = {"add-expense-screen"}

(* C22 *)

\* the row is one handleSaveExpenses refuses
RowInvalid(row) ==
    \/ ~row.hasDate
    \/ row.category = ""
    \/ parseFloatIsNaN(row.amount)
    \/ parseFloat(row.amount) <= 0
    \/ trim(row.comment) = ""

\* C22: handleSaveExpenses blocks the whole submission when a row is invalid:
\* no stored expense is modified and edit-expenses-list-screen stays active;
\* expenses are updated only when every row is valid
C22_InvalidRowBlocksEveryUpdate ==
    (last.op = "handleSaveExpenses"
       /\ \E i \in DOMAIN last.input : RowInvalid(last.input[i])) =>
        /\ ui.active = {"edit-expenses-list-screen"}
        /\ getExpenses(storage) = getExpenses(last.pre)

(* C23 *)

\* C23: each mutating operation of the store changes only its own
\* collection: addCategory, updateCategory and deleteCategory leave expenses,
\* income and limits as they were (a rename rewrites neither the category of a
\* stored expense nor a key of the stored limits); setIncome changes only
\* income; setLimitsForMonth only limits; addExpense, updateExpense and
\* deleteExpense only expenses
C23_OperationsChangeOwnCollection ==
    last.op # "none" =>
        LET before == getStoredData(last.pre)
            after == getStoredData(storage)
            own == CASE last.op \in {"addExpense", "updateExpense", "deleteExpense"} ->
                            "expenses"
                     [] last.op \in {"addCategory", "updateCategory", "deleteCategory"} ->
                            "categories"
                     [] last.op = "setIncome" -> "income"
                     [] last.op = "setLimitsForMonth" -> "limits"
        IN  /\ own # "expenses" => after.expenses = before.expenses
            /\ own # "categories" => after.categories = before.categories
            /\ own # "income" => after.income = before.income
            /\ own # "limits" => after.limits = before.limits

\* Food was renamed while an expense and a limit of Food are stored
C23_Witness ==
    /\ last.op = "updateCategory"
    /\ last.ret = Bool(TRUE)
    /\ getCategories(storage) = <<"Fuel", "Rent">>
    /\ getExpenses(storage)[1].category = "Food"
    /\ "Food" \in DOMAIN getStoredData(storage).limits[<<2024, 3>>]

(* C24 *)

\* C24: deleteExpense(id) removes the stored expense whose id is id and no
\* other, the rest keeping their order; when no expense has the id, the
\* expenses, categories, income and limits are all as they were
C24_DeleteExpenseRemovesOnlyId ==
    last.op = "deleteExpense" =>
        LET before == getStoredData(last.pre)
            after == getStoredData(storage)
            keep == {i \in DOMAIN before.expenses : before.expenses[i].id # last.id}
        IN  /\ Len(after.expenses) = Cardinality(keep)
            /\ \A j \in DOMAIN after.expenses :
                   after.expenses[j] = before.expenses[NthOf(keep, j)]
            /\ \A j \in DOMAIN after.expenses : after.expenses[j].id # last.id
            /\ after.categories = before.categories
            /\ after.income = before.income
            /\ after.limits = before.limits
            /\ keep = DOMAIN before.expenses => after = before

\* the first of two expenses with different ids was deleted
C24_Witness ==
    /\ last.op = "deleteExpense"
    /\ LET before == getExpenses(last.pre)
       IN  /\ Len(before) = 2
           /\ before[1].id = last.id
           /\ before[2].id # last.id
           /\ getExpenses(storage) = <<before[2]>>

(* C25 *)

\* C25: updateCategory(old, new) puts the trimmed new name at the position of
\* the category equal to old, keeps the length of the list and the order and
\* values of the other entries, and returns true; when old is not in the list
\* it returns false and the stored record is as it was
C25_UpdateCategoryRenamesInPlace ==
    last.op = "updateCategory" =>
        LET before == getCategories(last.pre)
            after == getCategories(storage)
            at == {i \in DOMAIN before : before[i] = last.oldName}
        IN  IF at # {}
            THEN /\ last.ret = Bool(TRUE)
                 /\ Len(after) = Len(before)
                 /\ after[NthOf(at, 1)] = trim(last.newName)
                 /\ \A j \in DOMAIN before : j # NthOf(at, 1) => after[j] = before[j]
            ELSE /\ last.ret = Bool(FALSE)
                 /\ storage = last.pre

\* Rent, the second of two categories, was renamed with a name given with
\* blanks around it
C25_Witness ==
    /\ last.op = "updateCategory"
    /\ last.oldName = "Rent"
    /\ last.newName = " Food "
    /\ Len(getCategories(last.pre)) = 2
    /\ getCategories(last.pre)[2] = "Rent"
    /\ getCategories(storage)[2] = "Food"

(* C26 *)

\* C26: deleteCategory(name) returns true whether or not name is in the
\* category list, removes every entry equal to name, and is idempotent: what
\* is stored after two deleteCategory(name) calls in a row is what is stored
\* after one
C26_DeleteCategoryIdempotent ==
    last.op = "deleteCategory" =>
        LET before == getCategories(last.pre)
            after == getCategories(storage)
            keep == {i \in DOMAIN before : before[i] # last.name}
        IN  /\ last.ret = Bool(TRUE)
            /\ Len(after) = Cardinality(keep)
            /\ \A j \in DOMAIN after : after[j] = before[NthOf(keep, j)]
            /\ deleteCategory(storage, last.name).st = storage
            /\ deleteCategory(storage, last.name).ret = Bool(TRUE)

\* a name listed twice was deleted, both entries going
C26_Witness ==
    /\ last.op = "deleteCategory"
    /\ Len(getCategories(last.pre)) = 3
    /\ Cardinality({i \in DOMAIN getCategories(last.pre) :
                       getCategories(last.pre)[i] = last.name}) = 2
    /\ Len(getCategories(storage)) = 1

(* C27 *)

\* C27: after setLimitsForMonth(map, k), getLimitsForMonth(k) is map exactly
\* (a category that had a limit and is not in map has none), the limits of
\* every other month are as they were, and getLimitsForMonth of a month that
\* was never set is the empty map (May 2024 is set by no call)
C27_SetLimitsReplacesMonth ==
    /\ getLimitsForMonth(storage, <<2024, 5>>) = EmptyMap
    /\ \A k \in StoreKeys :
           KeyOrCurrent(k) \notin DOMAIN getStoredData(storage).limits =>
               getLimitsForMonth(storage, k) = EmptyMap
    /\ last.op = "setLimitsForMonth" =>
           LET before == getStoredData(last.pre).limits
               after == getStoredData(storage).limits
               key == KeyOrCurrent(last.b)
           IN  /\ getLimitsForMonth(storage, last.b) = last.a
               /\ DOMAIN getLimitsForMonth(storage, last.b) = DOMAIN last.a
               /\ DOMAIN after = DOMAIN before \cup {key}
               /\ \A m \in DOMAIN after \ {key} : after[m] = before[m]

\* March 2024 had a limit for Food and was set to a map with Rent only, April
\* 2024 holding limits of its own
C27_Witness ==
    /\ last.op = "setLimitsForMonth"
    /\ last.b = <<2024, 3>>
    /\ "Food" \in DOMAIN getLimitsForMonth(last.pre, <<2024, 3>>)
    /\ DOMAIN getLimitsForMonth(storage, <<2024, 3>>) = {"Rent"}
    /\ DOMAIN getLimitsForMonth(storage, <<2024, 4>>) = {"Food", "Rent"}
    /\ getLimitsForMonth(storage, <<2024, 5>>) = EmptyMap

(* C28 *)

RECURSIVE SumOverMonths(_, _)
\* the sum of total[1] to total[m]
SumOverMonths(total, m) ==
    IF m = 0 THEN 0 ELSE total[m] + SumOverMonths(total, m - 1)

\* C28: getTotalExpensesForYear(y) is the sum over the twelve month-keys of y
\* of getTotalExpensesForMonth, and getTotalIncomeForYear(y) the sum over the
\* same keys of getIncome; expenses and incomes of other years add nothing
\* (the expense total is the sum of the amounts of the expenses whose local
\* year is y, the income total that of the entries whose key is of y)
C28_YearTotalsSumMonths ==
    /\ last.op = "getTotalExpensesForYear" =>
           LET y == YearOrCurrent(last.year)
               es == getExpenses(last.pre)
           IN  /\ last.ret = Num(SumOverMonths(
                       [m \in 1..12 |-> getTotalExpensesForMonth(last.pre, <<y, m>>)], 12))
               /\ last.ret = Num(SumAmounts(es, {i \in DOMAIN es : getFullYear(es[i].date) = y}))
    /\ last.op = "getTotalIncomeForYear" =>
           LET y == YearOrCurrent(last.year)
               income == getStoredData(last.pre).income
           IN  /\ last.ret = Num(SumOverMonths([m \in 1..12 |-> getIncome(last.pre, <<y, m>>)], 12))
               /\ \A k \in DOMAIN income :
                      k[1] # y => getTotalIncomeForYear(
                                     saveData([getStoredData(last.pre) EXCEPT
                                                  !.income = [j \in DOMAIN income \ {k} |-> income[j]]]),
                                     last.year) = last.ret.num

\* west of Greenwich the expenses dated 2024-01-01 and 2024-06-15 are stored and
\* the total of 2024 is read: the first falls in the local year 2023
C28_Witness ==
    /\ last.op = "getTotalExpensesForYear"
    /\ last.year = 2024
    /\ tz < 0
    /\ Len(getExpenses(last.pre)) = 2
    /\ getExpenses(last.pre)[1].date = DateFromUTC(2024, 0, 1)
    /\ getExpenses(last.pre)[1].amount = NumAmt(1)
    /\ getExpenses(last.pre)[2].date = DateFromUTC(2024, 5, 15)
    /\ last.ret = Num(2)

(* C29 *)

\* the page state without what showScreen writes: the active screen and the
\* timers
Globals(u) == [u EXCEPT !.active = {}, !.timers = {}, !.activeTimeouts = <<>>]

\* C29: navigateBack() found main-menu-screen or welcome-screen active: the
\* exit confirmation is the active screen and nothing else of the page or the
\* store changed; found exit-confirmation-screen active: the main menu is the
\* active screen; for a screen id with no entry in logicalParent it shows
\* the main menu
C29_BackAtRootsAndExit ==
    [][last'.op = "navigateBack" =>
          /\ last'.from \subseteq {"main-menu-screen", "welcome-screen"} =>
                 /\ ui'.active = {"exit-confirmation-screen"}
                 /\ Globals(ui') = Globals(ui)
                 /\ storage' = storage
          /\ last'.from = {"exit-confirmation-screen"} =>
                 /\ ui'.active = {"main-menu-screen"}
                 /\ storage' = storage
          /\ navigateBack(ui, storage, "unlisted-screen").active = {"main-menu-screen"}]_vars

\* navigateBack ran on the exit confirmation, reached by navigateBack from the
\* main menu, and showed the main menu
C29_Witness ==
    /\ last.op = "navigateBack"
    /\ last.from = {"exit-confirmation-screen"}
    /\ ui.active = {"main-menu-screen"}

(* C30 *)

\* the two income confirmations, left alone while no timer of a download is
\* pending, are followed by the main menu
IncomeConfirmationLeadsToMainMenu ==
    (AwaitingIncome /\ \A t \in ui.timers : t.fn # "download")
        ~> (ui.active = {"main-menu-screen"})

\* C30: once a confirmation that dismisses itself is shown (the income
\* confirmation, the income-set message of the income edit screen, the
\* download confirmation) and the user does nothing more, its timer fires and
\* main-menu-screen becomes the active screen
C30_ConfirmationLeadsToMainMenu ==
    (AwaitingIncome \/ AwaitingDownload) ~> (ui.active = {"main-menu-screen"})

-----------------------------------------------------------------------------
(* C31 *)

\* C31: the purge at start works by calendar month: an expense dated in the
\* calendar month of (now minus 12 months) is kept by cleanupOldData whatever
\* its day and hour, and only expenses of earlier calendar months are purged
C31_PurgeByCalendarMonth ==
    (pc = "ready" /\ last.op = "constructor") =>
        LET before == getStoredData(last.pre).expenses
            after == getStoredData(storage).expenses
            kept(i) == \E j \in DOMAIN after : after[j] = before[i]
            MonthIndex(t) == getFullYear(t) * 12 + getMonth(t)
        IN  \A i \in DOMAIN before :
                kept(i) <=> MonthIndex(before[i].date) >= MonthIndex(Cutoff)

-----------------------------------------------------------------------------
(* C32 *)

\* the months from the month of key to the month of t
MonthsBefore(key, t) == (getFullYear(t) * 12 + getMonth(t) + 1) - (key[1] * 12 + key[2])

\* C32: after the cleanup at start the stored record holds nothing older than
\* 12 months: no expense dated before the cutoff, no income entry and no
\* limits entry whose month-key is more than 12 months before the current
\* month
C32_NothingOlderThanTwelveMonths ==
    (pc = "ready" /\ last.op = "constructor") =>
        LET data == getStoredData(storage)
        IN  /\ \A i \in DOMAIN data.expenses : data.expenses[i].date >= Cutoff
            /\ \A k \in DOMAIN data.income : MonthsBefore(k, now) <= 12
            /\ \A k \in DOMAIN data.limits : MonthsBefore(k, now) <= 12

-----------------------------------------------------------------------------
(* C33 *)

\* the page after one navigateBack() call on page u
BackOnce(u) == navigateBack(u, storage, CHOOSE c \in CurrentIds(u) : TRUE)

RECURSIVE MainMenuWithin(_, _)
\* at most n navigateBack() calls from page u make the main menu active
MainMenuWithin(u, n) ==
    IF u.active = {"main-menu-screen"} THEN TRUE
    ELSE IF n = 0 THEN FALSE
    ELSE MainMenuWithin(BackOnce(u), n - 1)

\* C33: from every screen, calling navigateBack() again and again makes
\* main-menu-screen the active screen after at most 5 calls, and no call
\* leaves the active screen as it was
C33_BackReachesMainMenu ==
    /\ MainMenuWithin(ui, 5)
    /\ BackOnce(ui).active # ui.active

\* the confirmation of a deletion asked on the category detail: the main menu
\* is five calls away and no nearer
C33_Witness ==
    /\ ui.active = {"delete-expense-confirmation-screen"}
    /\ ui.deletionSourceScreen = Str("category-expenses-detail-screen")
    /\ ~MainMenuWithin(ui, 4)
    /\ MainMenuWithin(ui, 5)

-----------------------------------------------------------------------------
(* C34 *)

\* the two list screens a deletion is asked on
DeletionSources == {"category-expenses-detail-screen", "edit-expenses-list-screen"}

\* C34: whenever delete-expense-confirmation-screen is the active screen,
\* expenseIdToDelete is not null and deletionSourceScreen is the category
\* detail with a deletionContext that is not null, or the edit list; so
\* confirm, cancel and back each show the list screen the deletion was asked
\* on, never the main menu, and confirm never leaves the confirmation shown
C34_ConfirmationHasItsSource ==
    On("delete-expense-confirmation-screen") =>
        /\ ui.expenseIdToDelete # Null
        /\ \/ /\ ui.deletionSourceScreen = Str("category-expenses-detail-screen")
              /\ ui.deletionContext # Null
           \/ ui.deletionSourceScreen = Str("edit-expenses-list-screen")
        /\ \A after \in {handleDeleteExpense(storage, ui).ui,
                          cancelDeleteExpense(storage, ui).ui,
                          navigateBack(ui, storage, "delete-expense-confirmation-screen")} :
               /\ Str(CHOOSE a \in after.active : TRUE) = ui.deletionSourceScreen
               /\ after.active \subseteq DeletionSources
               /\ Cardinality(after.active) = 1

\* the confirmation is shown for a deletion asked on the edit list, after an
\* earlier deletion was confirmed
C34_Witness ==
    /\ On("delete-expense-confirmation-screen")
    /\ ui.deletionSourceScreen = Str("edit-expenses-list-screen")
    /\ ui.deletionContext = Null
    /\ Len(getExpenses(storage)) = 2

-----------------------------------------------------------------------------
(* C35 *)

\* C35: whenever category-expenses-detail-screen is active, lastSummaryParams
\* holds the year and month index of the detail shown (currentViewYear,
\* currentViewMonthIndex), so navigateBack() and the back button of the
\* screen both show the summary of that month
C35_DetailKeepsItsSummary ==
    On("category-expenses-detail-screen") =>
        /\ ui.lastSummaryParams # Null
        /\ ui.currentViewYear = Num(ui.lastSummaryParams.year)
        /\ ui.currentViewMonthIndex = Num(ui.lastSummaryParams.monthIndex)
        /\ \A after \in {navigateBack(ui, storage, "category-expenses-detail-screen"),
                          listenerCall(ui, storage, "categoryExpensesBack")} :
               /\ after.active = {"view-expenses-month-summary-screen"}
               /\ after.lastSummaryParams = ui.lastSummaryParams
               /\ after.currentViewYear = ui.currentViewYear
               /\ after.currentViewMonthIndex = ui.currentViewMonthIndex

\* the detail of March is shown again after a deletion was confirmed on it
C35_Witness ==
    /\ last.op = "handleDeleteExpense"
    /\ On("category-expenses-detail-screen")
    /\ ui.currentViewMonthIndex = Num(2)
    /\ ui.lastSummaryParams # Null
    /\ Len(getExpenses(storage)) = 2

-----------------------------------------------------------------------------
(* C36 *)

RECURSIVE SumOfRows(_, _, _)
\* the sum of the category totals of the rows of the month summary: one row
\* for each entry of the category list (a row left out has total 0)
SumOfRows(st, cats, key) ==
    IF cats = <<>> THEN 0
    ELSE getTotalExpensesForCategoryInMonth(st, cats[Len(cats)], key)
            + SumOfRows(st, SubSeq(cats, 1, Len(cats) - 1), key)

\* C36: on the month summary the month total shown is the sum of the category
\* totals of the listed rows, in every state reached through the page, also
\* after categories were renamed or deleted
C36_SummaryTotalIsSumOfRows ==
    (On("view-expenses-month-summary-screen") /\ ui.lastSummaryParams # Null) =>
        LET key == MonthKeyOf(ui.lastSummaryParams.year, ui.lastSummaryParams.monthIndex)
        IN  getTotalExpensesForMonth(storage, key)
               = SumOfRows(storage, getCategories(storage), key)

-----------------------------------------------------------------------------
(* C37 *)

\* C37: opening the edit list of a month and saving it with no field changed
\* leaves the category and the amount of every stored expense as they were,
\* also when the category of an expense is no longer in the category list
C37_UnchangedSaveKeepsExpenses ==
    LET shown == editListExpenses(last.pre, ui)
        before == getExpenses(last.pre)
        after == getExpenses(storage)
    IN  (/\ last.op = "handleSaveExpenses"
         /\ last.input = [i \in DOMAIN shown |-> editRow(last.pre, shown[i])]) =>
            /\ Len(after) = Len(before)
            /\ \A i \in DOMAIN before :
                   /\ after[i].category = before[i].category
                   /\ after[i].amount = before[i].amount

-----------------------------------------------------------------------------
(* C38 *)

\* C38: the start changes what the storage key holds only by removing expired
\* expenses: unparseable content is still there after the start, and of a
\* well-formed record the categories, the income, the limits and every
\* expense that is not expired are as before; the content is never replaced
\* by the empty default record
C38_StartOnlyRemovesExpired ==
    (pc = "ready" /\ last.op = "constructor") =>
        /\ last.pre.kind = "garbage" => storage = last.pre
        /\ last.pre.kind = "json" =>
               LET before == parse(last.pre)
                   after == getStoredData(storage)
               IN  /\ after.categories = before.categories
                   /\ after.income = before.income
                   /\ after.limits = before.limits
                   /\ \A j \in DOMAIN after.expenses :
                          \E i \in DOMAIN before.expenses :
                              after.expenses[j] = before.expenses[i]
                   /\ \A i \in DOMAIN before.expenses :
                          before.expenses[i].date >= Cutoff =>
                              \E j \in DOMAIN after.expenses :
                                  after.expenses[j] = before.expenses[i]

-----------------------------------------------------------------------------
(* C39 *)

\* C39: an expense submitted through the add-expense form with the calendar
\* date D is attributed to the month of D in every time zone of the browser:
\* getExpensesForMonth of D's month-key holds it, and the month total and
\* the category total of that month-key grow by its amount
C39_FormDateKeepsItsMonth ==
    (last.op = "handleAddExpenseSubmit" /\ storage # last.pre) =>
        LET key == <<last.input.date[1], last.input.date[2]>>
            es == getExpenses(storage)
            added == es[Len(es)]
            inMonth == getExpensesForMonth(storage, key)
        IN  /\ \E i \in DOMAIN inMonth : inMonth[i] = added
            /\ getTotalExpensesForMonth(storage, key)
                   = getTotalExpensesForMonth(last.pre, key) + last.input.amount
            /\ getTotalExpensesForCategoryInMonth(storage, last.input.category, key)
                   = getTotalExpensesForCategoryInMonth(last.pre, last.input.category, key)
                         + last.input.amount

-----------------------------------------------------------------------------
(* C40 *)

\* the month-key of the calendar month before the month of t
PreviousMonthKey(t) ==
    IF getMonth(t) = 0 THEN <<getFullYear(t) - 1, 12>>
    ELSE <<getFullYear(t), getMonth(t)>>

\* C40: handleContinueIncome leaves a positive income of the current month
\* as it is; when the current month has no income and the income of the
\* previous month is positive, the current month's income becomes the
\* previous month's and income-confirmation-screen is shown; when both are 0
\* the store and the active screen stay as they were
C40_ContinueIncomeCopiesPreviousMonth ==
    last.op = "handleContinueIncome" =>
        LET currentMonthKey == getMonthKey(now)
            currentIncome == getIncome(last.pre, currentMonthKey)
            previousIncome == getIncome(last.pre, PreviousMonthKey(now))
        IN  /\ currentIncome > 0 =>
                   getIncome(storage, currentMonthKey) = currentIncome
            /\ (currentIncome = 0 /\ previousIncome > 0) =>
                   /\ getIncome(storage, currentMonthKey) = previousIncome
                   /\ On("income-confirmation-screen")
            /\ (currentIncome = 0 /\ previousIncome = 0) =>
                   /\ storage = last.pre
                   /\ On("income-view-screen")

====
